---- MODULE Spec2Model ----
(***************************************************************************)
(* Model of the interview-review consumer: the RabbitMQ client             *)
(* (app/utils/rabbitmq_utils.py), the processing service and its Redis     *)
(* status store (app/rabbitmq_interview_review_service.py), the            *)
(* aggregation of per-question reviews                                     *)
(* (app/services/interview_question_level_service.py) and the status read  *)
(* endpoint (app/app.py).                                                  *)
(*                                                                         *)
(* The consumer process is a sequential program; pc is its position.  The  *)
(* handler of one delivery is split at its blocking calls (engine, status  *)
(* store, reporter, broker), because the process can be stopped between    *)
(* them and the collaborators can fail independently at each of them.      *)
(***************************************************************************)
EXTENDS Integers, Sequences, FiniteSets, TLC

(***************************************************************************)
(* Bounds of the model.                                                    *)
(***************************************************************************)
MaxPublish == 2      \* messages enqueued by publishers
MaxRestarts == 1     \* times the consumer process is started again
MaxHundredths == 10100   \* largest average_percentage tried, in hundredths (101.00)
MaxCategories == 4   \* scoring categories of a review handed to calculate_scores
MaxPoint == 3        \* largest point of a question handed to calculate_scores
MaxReviews == 3      \* reviews in a list handed to extract_and_process_interview_data
MaxEvents == 2       \* events one process records with store_event
MaxCalls == 2        \* calls of generate_interview_questions
MaxProduced == 3     \* calls of produce_message
MaxConsumes == 2     \* calls of consume_messages

(***************************************************************************)
(* Python values.                                                          *)
(***************************************************************************)
None == "<None>"          \* Python None in an Optional[str] position
EmptyDictText == "{}"     \* the default {} of message.get('id', {}), as formatted
NoExc == ""               \* no exception pending

\* The keys of a QuestionItem dict of a queue message.
QuestionKeys == {"qid", "technologies", "tags", "level", "questionText",
                 "questionExplanation", "transcriptText", "point"}

\* QuestionItem dicts: has is the set of keys present in the dict.
Q1 == [qid |-> "q1", technologies |-> {"Java"}, tags |-> {"threads", "basics"}, point |-> 2,
       has |-> QuestionKeys]
Q2 == [qid |-> "q2", technologies |-> {"Java", "Go"}, tags |-> {"threads", "pools"}, point |-> 3,
       has |-> QuestionKeys]
Q3 == [qid |-> "q3", technologies |-> {"Go"}, tags |-> {"pools"}, point |-> 1,
       has |-> QuestionKeys]
\* An item without the key transcriptText.
Q4 == [qid |-> "q4", technologies |-> {"Go"}, tags |-> {"basics"}, point |-> 1,
       has |-> QuestionKeys \ {"transcriptText"}]
Q5 == [qid |-> "q5", technologies |-> {"Go"}, tags |-> {"basics"}, point |-> 1,
       has |-> QuestionKeys]
Q6 == [qid |-> "q6", technologies |-> {"Java"}, tags |-> {"pools"}, point |-> 1,
       has |-> QuestionKeys]

\* review = self.chain.invoke({...}) when the call returns: the values of
\* review['scoring'] that the engine gives for the item.  For q1 they are the
\* nine scores of the logged sample, for q3 the dict is empty, and q2, q5 and
\* q6 get the percentages 12.5, 66.67 and 13.75.
chain_invoke(item) ==
    [scoring |-> CASE item.qid = "q1" -> <<8, 5, 6, 7, 5, 8, 6, 7, 7>>
                   [] item.qid = "q2" -> <<1, 1, 1, 2>>
                   [] item.qid = "q3" -> <<>>
                   [] item.qid = "q6" -> <<1, 1, 1, 1, 1, 1, 1, 4>>
                   [] OTHER -> <<7, 7, 6>>]

\* A job dict: has is the set of keys present in the dict.
Job(id, profile, interview, has) ==
    [has |-> has, id |-> id, profile |-> profile, interview |-> interview]

AllKeys == {"id", "profile", "interview"}
NoJob == Job("", "", <<>>, {})

Jobs ==
    { Job("j1", "student", <<Q1, Q2>>, AllKeys),
      Job("j2", "student", <<Q2>>, AllKeys),
      Job("j1", "student", <<>>, AllKeys),
      Job("j1", "student", <<>>, {"id", "profile"}),
      Job("", "student", <<Q1>>, {"profile", "interview"}),
      Job("j1", "", <<Q1>>, {"id", "interview"}) }

\* What submit_interview publishes: a JSON object with none of the job's keys.
SubmissionJob == NoJob

(***************************************************************************)
(* Message bodies on the wire.  form is what the bytes are: not JSON at    *)
(* all, a JSON object, or a JSON string; text is what a JSON string holds: *)
(* Python source that does not parse, source of a value that is no dict,   *)
(* or a dict literal.                                                      *)
(***************************************************************************)
Body(form, text, job) == [form |-> form, text |-> text, job |-> job]

Bodies ==
    { Body("notjson", "", NoJob),
      Body("object", "", SubmissionJob),
      Body("string", "nondict", NoJob) }
    \cup { Body("string", "dict", j) : j \in Jobs }

NoBody == Body("none", "", NoJob)

\* A Python value held in the local variable message.
Value(type, text, job) == [text |-> text, job |-> job, type |-> type]
NoValue == Value("none", "", NoJob)
Raise(e) == Value("raise", e, NoJob)

\* json.loads(body) of internal_callback.
json_loads(body) ==
    CASE body.form = "notjson" -> Raise("JSONDecodeError")
      [] body.form = "object" -> Value("dict", "", body.job)
      [] body.form = "string" -> Value("str", body.text, body.job)

\* eval(message) of process_message: only a str (bytes, code) is evaluated.
py_eval(v) ==
    CASE v.type # "str" -> Raise("TypeError: eval() arg 1 must be a string")
      [] v.type = "str" /\ v.text = "syntaxerror" -> Raise("SyntaxError")
      [] v.type = "str" /\ v.text = "nondict" -> Value("list", "", NoJob)
      [] v.type = "str" /\ v.text = "dict" -> Value("dict", "", v.job)

\* message.get('id', {}): a dict method.
get_id(v) ==
    IF v.type # "dict" THEN Raise("AttributeError: no attribute 'get'")
    ELSE Value("str", IF "id" \in v.job.has THEN v.job.id ELSE EmptyDictText, NoJob)

(***************************************************************************)
(* The scoring functions.  A float that the code rounds to two decimals is *)
(* the integer number of its hundredths: 1.31 is 131, 65.56 is 6556.       *)
(***************************************************************************)
max_score_per_category == 10

RECURSIVE Sum(_)
Sum(seq) == IF seq = <<>> THEN 0 ELSE Head(seq) + Sum(Tail(seq))

\* round(x, 2) of the double computed for num/den hundredths (num >= 0,
\* den > 0): the nearest hundredth; when num/den lies exactly between two
\* hundredths, tie_up tells on which side of it the double rounds.
round2(num, den, tie_up) ==
    LET floor == num \div den
        twice == 2 * (num % den)
    IN  IF twice < den THEN floor
        ELSE IF twice > den THEN floor + 1
        ELSE IF tie_up THEN floor + 1 ELSE floor

\* The <<total_score, num_categories, question_points>> for which
\* (average_score / max_score_per_category) * question_points lies between two
\* hundredths and round(average_points, 2) gives the upper one, as IEEE-754
\* doubles evaluate lines 83-88; every other tie gives the lower one.  Ties
\* exist only with 4 categories, for up to 7 categories, totals up to 44 and
\* points up to 5; average_percentage has no tie there.
PointsTiesUp ==
    { <<1, 4, 1>>, <<9, 4, 1>>, <<11, 4, 1>>, <<13, 4, 1>>, <<15, 4, 1>>, <<21, 4, 1>>,
      <<27, 4, 1>>, <<31, 4, 1>>, <<35, 4, 1>>, <<37, 4, 1>>, <<1, 4, 3>>, <<5, 4, 3>>,
      <<9, 4, 3>>, <<11, 4, 3>>, <<13, 4, 3>>, <<21, 4, 3>>, <<25, 4, 3>>, <<27, 4, 3>>,
      <<31, 4, 3>>, <<37, 4, 3>>, <<3, 4, 5>>, <<7, 4, 5>>, <<11, 4, 5>>, <<15, 4, 5>>,
      <<19, 4, 5>>, <<23, 4, 5>>, <<27, 4, 5>>, <<31, 4, 5>>, <<35, 4, 5>>, <<39, 4, 5>>,
      <<43, 4, 5>> }

\* What a call of a scoring function did: the exception it raised, or the
\* pair it returned.
Scores(raised, average_points, percentage) ==
    [raised |-> raised, average_points |-> average_points,
     average_percentage |-> percentage]
NoScores == Scores("<not called>", 0, 0)

\* calculate_scores with "if not scoring_data: return 0, 0" in front.
calculate_scores_zero_on_empty(scoring_data, question_points) ==
    LET total_score == Sum(scoring_data)
        num_categories == Len(scoring_data)
    IN  IF num_categories = 0 THEN Scores(NoExc, 0, 0)
        ELSE Scores(NoExc,
                    round2(total_score * question_points * 100,
                           num_categories * max_score_per_category,
                           <<total_score, num_categories, question_points>>
                               \in PointsTiesUp),
                    round2(total_score * 10000,
                           num_categories * max_score_per_category, FALSE))

\* InterviewQuestionReviewService.calculate_scores: scoring_data is the
\* sequence of the dict's values; total_score / num_categories raises
\* ZeroDivisionError for an empty dict.
calculate_scores(scoring_data, question_points) ==
    LET total_score == Sum(scoring_data)
        num_categories == Len(scoring_data)
    IN  IF num_categories = 0 THEN Scores("ZeroDivisionError", 0, 0)
        ELSE Scores(NoExc,
                    round2(total_score * question_points * 100,
                           num_categories * max_score_per_category,
                           <<total_score, num_categories, question_points>>
                               \in PointsTiesUp),
                    round2(total_score * 10000,
                           num_categories * max_score_per_category, FALSE))

\* InterviewOverallReviewService.calculate_performance; average_percentage is
\* a float rounded to two decimals, here the integer number of hundredths.
calculate_performance(p) ==
    IF 9000 <= p /\ p <= 10000 THEN "excellent"
    ELSE IF 7500 <= p /\ p < 9000 THEN "good"
    ELSE IF 5000 <= p /\ p < 7500 THEN "average"
    ELSE IF 3000 <= p /\ p < 5000 THEN "below_average"
    ELSE "poor"

\* The loop of extract_and_process_interview_data over technologies and tags:
\* set.update with every entry's list.
RECURSIVE UnionOf(_, _)
UnionOf(data, field) ==
    IF data = <<>> THEN {}
    ELSE Head(data)[field] \cup UnionOf(Tail(data), field)

\* The same loop over average_points and average_percentage: +=.
RECURSIVE SumOf(_, _)
SumOf(data, field) ==
    IF data = <<>> THEN 0
    ELSE Head(data)[field] + SumOf(Tail(data), field)

\* round(total_percentage / len(data), 2) when the quotient lies between two
\* hundredths.  Percentages that are multiples of 0.25 are doubles, and so are
\* their sum and its quotient by 2 or 4: round() then goes to the even
\* hundredth.  For the other lists of up to 4 reviews of Q1, Q2, Q5 and Q6 the
\* double computed lies above the tie.
AverageTieUp(data) ==
    IF \A i \in 1..Len(data) : data[i].average_percentage % 25 = 0
    THEN (SumOf(data, "average_percentage") \div Len(data)) % 2 = 1
    ELSE TRUE

\* extract_and_process_interview_data with the sum of the percentages as
\* the average.
extract_and_process_interview_data_no_division(data) ==
    [technologies |-> UnionOf(data, "technologies"),
     tags |-> UnionOf(data, "tags"),
     average_percentage |-> SumOf(data, "average_percentage"),
     total_score |-> round2(SumOf(data, "average_points"), 1, FALSE),
     overall_performance |-> calculate_performance(SumOf(data, "average_percentage"))]

\* InterviewOverallReviewService.extract_and_process_interview_data for a
\* list that is not empty (len(data) = 0 raises ZeroDivisionError).
extract_and_process_interview_data(data) ==
    LET total_score == SumOf(data, "average_points")
        total_percentage == SumOf(data, "average_percentage")
        average == round2(total_percentage, Len(data), AverageTieUp(data))
    IN  [technologies |-> UnionOf(data, "technologies"),
         tags |-> UnionOf(data, "tags"),
         average_percentage |-> average,
         total_score |-> round2(total_score, 1, FALSE),
         overall_performance |-> calculate_performance(average)]

NoOverall == [technologies |-> {}, tags |-> {}, average_percentage |-> 0,
              total_score |-> 0, overall_performance |-> ""]

(***************************************************************************)
(* ServiceConfig: the environment of the process is the set of variables   *)
(* that are set; their values are taken to be well formed (REDIS_PORT and  *)
(* the like are numerals).                                                 *)
(***************************************************************************)
Setting(key, default) == [key |-> key, default |-> default]

\* The calls of _get_env in ServiceConfig.__init__, in order, with the
\* default each passes (None when it passes none).
Settings ==
    << Setting("RABBITMQ_HOST", None),
       Setting("RABBITMQ_QUEUE", None),
       Setting("RABBITMQ_DEFAULT_USER", None),
       Setting("RABBITMQ_DEFAULT_PASS", None),
       Setting("AWS_ACCESS_KEY_ID", None),
       Setting("AWS_SECRET_ACCESS_KEY", None),
       Setting("REDIS_HOST", None),
       Setting("REDIS_PORT", None),
       Setting("REDIS_DB", None),
       Setting("SERVICE_NAME", "interview-review-service"),
       Setting("MAX_RETRIES", "3"),
       Setting("RETRY_DELAY", "5"),
       Setting("STATUS_CHECK_TIMEOUT", "7200"),
       Setting("TEMP_DIR", "/tmp") >>

Variables == {Settings[i].key : i \in 1..Len(Settings)}

\* _get_env that returns the empty string for a variable that is not set and
\* has no default.
get_env_empty_when_unset(env, key, default) ==
    IF key \in env THEN "<value>" ELSE IF default = None THEN "" ELSE default

\* ServiceConfig._get_env(key, default): os.getenv(key, default), and
\* ValueError when that is None.
get_env(env, key, default) ==
    LET value == IF key \in env THEN "<value>" ELSE default IN
    IF value = None THEN "ValueError: not set" ELSE value

\* ServiceConfig(): the first _get_env that raises ends the constructor.
ServiceConfig(env) ==
    LET failed == {i \in 1..Len(Settings) :
                      get_env(env, Settings[i].key, Settings[i].default)
                          = "ValueError: not set"}
    IN  IF failed = {} THEN [raised |-> NoExc, key |-> ""]
        ELSE [raised |-> "ValueError",
              key |-> Settings[CHOOSE i \in failed : \A j \in failed : i <= j].key]

\* The environments of the consumer's runs: every variable set, or all but
\* one that is required.
Environments == {Variables, Variables \ {"REDIS_HOST"}}

(***************************************************************************)
(* State.                                                                  *)
(***************************************************************************)
VARIABLES
    environ,        \* the environment variables that are set (os.getenv is not None)
    brokerUp,       \* the broker accepts connections
    pc,             \* position of the consumer process
    exitCode,       \* exit status of the process, "none" while it runs
    restarts,       \* times the process was started again
    queue,          \* bodies ready in the broker's queue, head first
    prefetched,     \* bodies the broker has sent to the consumer that wait for
                    \* internal_callback, oldest first
    inflight,       \* body internal_callback was called with and has not
                    \* acknowledged, or NoBody
    published,      \* number of messages enqueued so far
    disk,           \* the persistent messages of the durable queue that are not
                    \* acknowledged, oldest first: what the broker has on disk
    message,        \* local: message of internal_callback / process_message
    id,             \* local: id of process_message
    todo,           \* local: question items the loop has still to visit
    question_level_list,  \* local of _process_single_document
    final_response, \* local of _process_single_document
    exc,            \* exception being handled or propagating (text), NoExc if none
    store,          \* Redis: key -> hash (a function field -> text; empty = no key)
    expiry,         \* Redis: key -> seconds to live set by expire, 0 = none
    clock,          \* logical time of datetime.utcnow(): one tick per event that
                    \* Redis accepted
    dBody,          \* history: the body of the last delivery of this process
    dHandler,       \* history: how far the handling of that delivery got: "none",
                    \* "pending" (delivered), "running" (handler entered),
                    \* "returned", "raised" (the handler raised), "dropped"
                    \* (internal_callback raised before calling the handler)
    dAcked,         \* history: the delivery was acknowledged
    dEngine,        \* history: outcomes of the per-question engine calls of the delivery
    dAgg,           \* history: outcomes of the aggregate engine calls of the delivery
    dReports,       \* history: reporter calls of the delivery, payload and outcome
    dLogged,        \* history: log_event calls of the delivery: the event and the
                    \* outcome of the two Redis calls of store_event
    dFirst,         \* history: what the earlier deliveries of the message now in
                    \* flight, or requeued at the head of the queue, did
    poll,           \* last answer of the read interface
    sent,           \* last call of a publisher: the operation, its message, what
                    \* became of the message and what the caller got back
    average_percentage,   \* argument of calculate_performance, in hundredths
    overall_performance,  \* its result, "" before the call
    scoring,        \* argument scoring_data of calculate_scores: the scores
    point,          \* argument question_points of calculate_scores
    scores,         \* what calculate_scores did, NoScores before the call
    reviews,        \* argument data of extract_and_process_interview_data
    overall,        \* what it did, NoOverall before the call
    writers,        \* the processes that record events: where each is in
                    \* store_event and the events it has issued, oldest first
    cache,          \* InterviewQuestionService.cache: cache key -> stored result
    asked,          \* history: the calls of generate_interview_questions, with
                    \* arguments, cache key, hit or miss, and result
    topic,          \* Kafka: the log of the topic, encoded messages, oldest first
    committed,      \* Kafka: the offset committed for the group 'test-group'
    consumer,       \* consume_messages: its consumer, position, list and clock
    produced        \* history: the calls of produce_message, with their message
                    \* and whether the broker got it

procVars == <<environ, brokerUp, pc, exitCode, restarts>>
brokerVars == <<queue, prefetched, inflight, published, disk>>
localVars == <<message, id, todo, question_level_list, final_response, exc>>
redisVars == <<store, expiry, clock>>
histVars == <<dBody, dHandler, dAcked, dEngine, dAgg, dReports, dLogged, dFirst>>
scoreVars == <<average_percentage, overall_performance, scoring, point, scores, reviews,
               overall>>
vars == <<environ, brokerUp, pc, exitCode, restarts, queue, prefetched, inflight, published,
          disk, message, id,
          todo, question_level_list, final_response, exc, store, expiry, clock,
          dBody, dHandler, dAcked, dEngine, dAgg, dReports, dLogged, dFirst, poll,
          sent, scoreVars, writers, cache, asked, topic, committed, consumer, produced>>
\* The state of the other programs around the consumer process.
cacheVars == <<cache, asked>>
kafkaVars == <<topic, committed, consumer, produced>>
auxVars == <<writers, cacheVars, kafkaVars>>
\* What the consumer process never touches.
sideVars == <<poll, sent, scoreVars, auxVars>>

\* self.config = ServiceConfig() of ProcessingService.__init__ returns.
envOk == ServiceConfig(environ).raised = NoExc

CidSet == {"j1", "j2", EmptyDictText}
Keys == {<<ns, c>> : ns \in {"status", "interview_response"}, c \in CidSet}
EmptyHash == [f \in {} |-> ""]

NoResponse == [technologies |-> {}, tags |-> {}, id |-> "",
               profile |-> "", average_percentage |-> 0, total_score |-> 0,
               overall_performance |-> "", individual_result |-> <<>>, built |-> FALSE]
NoFirst == [done |-> 0, reports |-> 0, success |-> 0]
NoPoll == [id |-> "", op |-> "none", code |-> 0, status |-> None, timestamp |-> None,
           fields |-> EmptyHash]

\* A dict handed to a publish operation: the job it holds, and whether
\* json.dumps can serialize it.
Message(job, serializable) == [job |-> job, serializable |-> serializable]
NoMessage == Message(NoJob, TRUE)
NoSent == [raised |-> FALSE, message |-> NoMessage, op |-> "none", reachable |-> TRUE,
           enqueued |-> FALSE, result |-> None, http |-> 0]

\* The processes that record events besides the consumer modelled step by
\* step, and the job each of them works on.
Processes == {"p1", "p2"}
JobOf(p) == IF p = "p1" THEN "j1" ELSE "j2"
NoWriters == [p \in Processes |-> [at |-> "idle", issued |-> <<>>]]

\* A diskcache.Cache with no entry; no consumer created yet.
EmptyCache == [k \in {} |-> None]
NoConsumer == [state |-> "none", position |-> 0, start |-> 0, log_end |-> 0,
               messages |-> <<>>, elapsed |-> 0, error |-> NoExc, returned |-> <<>>,
               consumes |-> 0]

\* The state of the consumer process, the broker and Redis when main() is
\* entered.
InitRun ==
    /\ brokerUp \in BOOLEAN
    /\ pc = "main"
    /\ exitCode = "none"
    /\ restarts = 0
    /\ queue = <<>>
    /\ prefetched = <<>>
    /\ inflight = NoBody
    /\ published = 0
    /\ disk = <<>>
    /\ message = NoValue
    /\ id = ""
    /\ todo = <<>>
    /\ question_level_list = <<>>
    /\ final_response = NoResponse
    /\ exc = NoExc
    /\ store = [k \in Keys |-> EmptyHash]
    /\ expiry = [k \in Keys |-> 0]
    /\ clock = 0
    /\ dBody = NoBody
    /\ dHandler = "none"
    /\ dAcked = FALSE
    /\ dEngine = <<>>
    /\ dAgg = <<>>
    /\ dReports = <<>>
    /\ dLogged = <<>>
    /\ dFirst = NoFirst
    /\ poll = NoPoll
    /\ sent = NoSent
    /\ writers = NoWriters
    /\ cache = EmptyCache
    /\ asked = <<>>
    /\ topic = <<>>
    /\ committed = 0
    /\ consumer = NoConsumer
    /\ produced = <<>>

InitProcess ==
    /\ environ \in Environments
    /\ InitRun

\* No call of a scoring function is under way.
IdleScoring ==
    /\ scoring = <<>>
    /\ point = 0
    /\ scores = NoScores
    /\ reviews = <<>>
    /\ overall = NoOverall

Init ==
    /\ InitProcess
    /\ average_percentage = 0
    /\ overall_performance = ""
    /\ IdleScoring

(***************************************************************************)
(* Startup: main(), ServiceConfig, the health checks, start_consumer.      *)
(***************************************************************************)

\* A Python bool or tuple, as an object whose truth an if statement tests.
PyBool(b) == [b |-> b, t |-> "bool", items |-> <<>>]
PyTuple(items) == [b |-> FALSE, t |-> "tuple", items |-> items]
Truthy(x) == IF x.t = "bool" THEN x.b ELSE Len(x.items) > 0

\* RabbitMQClient.check_health: opens a connection and declares the queue;
\* any exception is caught and gives False.  It consumes nothing.
RabbitMQ_check_health(reachable) == IF reachable THEN TRUE ELSE FALSE

\* ProcessingService.check_health: "rabbitmq_health = ...check_health()," ends
\* in a comma, so the value returned is the 1-tuple (rabbitmq_health,).
\* RabbitMQClient.check_health never raises, so the except branch is not taken.
Service_check_health(reachable) == PyTuple(<<RabbitMQ_check_health(reachable)>>)

\* service = ProcessingService(): ServiceConfig raises ValueError when a
\* required variable is unset; main catches it and calls exit(1).
Main_Construct ==
    /\ pc = "main"
    /\ IF envOk
       THEN /\ pc' = "health"
            /\ exitCode' = exitCode
       ELSE /\ pc' = "exited"
            /\ exitCode' = "1"
    /\ UNCHANGED <<environ, brokerUp, restarts, brokerVars, localVars, redisVars, histVars, sideVars>>

\* if service.check_health(): service.start() else: exit(1)
Main_CheckHealth ==
    /\ pc = "health"
    /\ IF Truthy(Service_check_health(brokerUp))
       THEN /\ pc' = "start"
            /\ exitCode' = exitCode
       ELSE /\ pc' = "exited"
            /\ exitCode' = "1"
    /\ UNCHANGED <<environ, brokerUp, restarts, brokerVars, localVars, redisVars, histVars, sideVars>>

\* service.start() -> start_consumer: connect, declare, qos 1, basic_consume,
\* start_consuming.  A connection error is caught and logged inside
\* start_consumer, which returns; start and main return: the process ends
\* with status 0.
Main_Start ==
    /\ pc = "start"
    /\ IF brokerUp
       THEN /\ pc' = "consuming"
            /\ exitCode' = exitCode
       ELSE /\ pc' = "exited"
            /\ exitCode' = "0"
    /\ UNCHANGED <<environ, brokerUp, restarts, brokerVars, localVars, redisVars, histVars, sideVars>>

(***************************************************************************)
(* The broker side of the queue.                                           *)
(***************************************************************************)

\* The broker stops or comes back while the service is starting (what a
\* lost connection does to a consumer that is already consuming is what
\* ProcessStop does to it: the delivery is cut short and requeued).
\* A broker that stops keeps what it has on disk and nothing else: when it is
\* back, the queue holds the persistent messages of the durable queue.
BrokerChange ==
    /\ pc \in {"main", "health", "start"}
    /\ brokerUp' = ~brokerUp
    /\ queue' = IF brokerUp THEN disk ELSE queue
    /\ UNCHANGED <<environ, pc, exitCode, restarts, prefetched, inflight, published, disk,
                   localVars, redisVars, histVars, sideVars>>

\* The broker puts the delivered, unacknowledged messages back at the head of
\* the queue when the consumer's connection closes.
Requeued ==
    (IF inflight = NoBody THEN <<>> ELSE <<inflight>>) \o prefetched \o queue

\* The deliveries of a message that ended without an acknowledgement, the one
\* now ending included: how many of them scored the job and called the
\* reporter, their reporter calls and the SUCCESS events they stored.
Unacknowledged ==
    IF inflight = NoBody THEN dFirst
    ELSE [done |-> dFirst.done +
                     (IF dAgg = <<TRUE>> /\ Len(dReports) = 1 THEN 1 ELSE 0),
          reports |-> dFirst.reports + Len(dReports),
          success |-> dFirst.success +
                        Cardinality({i \in 1..Len(dLogged) :
                                        dLogged[i].event.status = "SUCCESS"})]

\* _declare_queue: channel.queue_declare(queue=self.queue, durable=True).
queue_declare == [durable |-> TRUE]

\* pika.BasicProperties(delivery_mode=1): a transient message.
basic_properties_transient(op) == [delivery_mode |-> 1]

\* properties=pika.BasicProperties(delivery_mode=2) of send_message and of
\* publish_message.
basic_properties(op) == [delivery_mode |-> 2]

\* The broker writes a message to disk when the queue is durable and the
\* message is persistent.
Persistent(declared, properties) == declared.durable /\ properties.delivery_mode = 2

\* basic_publish(exchange='', routing_key=self.queue, ...) on an open channel,
\* after _declare_queue: the body is appended to the queue of that name.
Enqueue(body, properties) ==
    /\ published < MaxPublish
    /\ queue' = Append(queue, body)
    /\ published' = published + 1
    /\ disk' = IF Persistent(queue_declare, properties) THEN Append(disk, body) ELSE disk
    /\ UNCHANGED <<prefetched, inflight>>

\* A publisher outside this repository puts a body of any form on the queue,
\* as a persistent message.
Publish(body) ==
    /\ Enqueue(body, [delivery_mode |-> 2])
    /\ UNCHANGED <<procVars, localVars, redisVars, histVars, sideVars>>

\* json.dumps(message) of the two publish operations: a dict becomes a JSON
\* object.
json_dumps(msg) == Body("object", "", msg.job)

\* What a publish operation did and gave back to its caller.
Outcome(enqueued, result, raised) ==
    [raised |-> raised, enqueued |-> enqueued, result |-> result]

\* publish_message with "return True" also at the end of its except clause.
publish_message_true_on_error(msg, reachable) ==
    Outcome(reachable /\ msg.serializable, "True", FALSE)

\* RabbitMQClient.publish_message: connect, declare, json.dumps, basic_publish,
\* return True; any exception (no connection, TypeError of json.dumps) is
\* caught and logged, return False.
publish_message(msg, reachable) ==
    IF reachable /\ msg.serializable
    THEN Outcome(TRUE, "True", FALSE)
    ELSE Outcome(FALSE, "False", FALSE)

\* RabbitMQClient.send_message: the same steps, but it returns nothing, and
\* nothing either after its except clause logged the error.
send_message(msg, reachable) ==
    IF reachable /\ msg.serializable
    THEN Outcome(TRUE, None, FALSE)
    ELSE Outcome(FALSE, None, FALSE)

\* A call of a publish operation by some caller, and what the caller sees.
Called(op, msg, reachable, out, http) ==
    /\ reachable => brokerUp
    /\ IF out.enqueued
       THEN Enqueue(json_dumps(msg), basic_properties(op))
       ELSE UNCHANGED brokerVars
    /\ sent' = [raised |-> out.raised, message |-> msg, op |-> op,
                reachable |-> reachable, enqueued |-> out.enqueued,
                result |-> out.result, http |-> http]
    /\ UNCHANGED <<procVars, localVars, redisVars, histVars, poll, scoreVars, auxVars>>

PublishMessage(msg, reachable) ==
    Called("publish_message", msg, reachable, publish_message(msg, reachable), 0)

SendMessage(msg, reachable) ==
    Called("send_message", msg, reachable, send_message(msg, reachable), 0)

\* POST /submit-interview: the size test raises HTTPException(413) inside the
\* try, where "except Exception" turns it into a 500; otherwise the message is
\* built, publish_message is called, its result is dropped, and the answer is
\* {"status": "success", ...}.
SubmitInterview(tooLarge, reachable) ==
    IF tooLarge
    THEN Called("submit_interview", Message(SubmissionJob, TRUE), reachable,
                Outcome(FALSE, None, FALSE), 500)
    ELSE LET out == publish_message(Message(SubmissionJob, TRUE), reachable) IN
         Called("submit_interview", Message(SubmissionJob, TRUE), reachable,
                out, IF out.raised THEN 500 ELSE 200)

\* channel.basic_qos(prefetch_count=1)
prefetch_count == 1

\* Messages delivered to this consumer and not acknowledged.
UnackedCount == Len(prefetched) + (IF inflight = NoBody THEN 0 ELSE 1)

\* start_consumer without its basic_qos call: the broker sets no limit.
WithinPrefetch_no_qos(unacked) == TRUE

\* The broker sends a consumer no further message while prefetch_count of
\* its deliveries are unacknowledged.
WithinPrefetch(unacked) == unacked < prefetch_count

\* basic_consume without auto_ack: the broker sends the head of the queue to
\* the consumer, whatever the consumer is doing, within the prefetch limit.
BrokerDeliver ==
    /\ pc \notin {"main", "health", "start", "exited"}
    /\ queue # <<>>
    /\ WithinPrefetch(UnackedCount)
    /\ prefetched' = Append(prefetched, Head(queue))
    /\ queue' = Tail(queue)
    /\ UNCHANGED <<inflight, published, disk, procVars, localVars, redisVars, histVars,
                   sideVars>>

\* start_consuming: the blocking loop calls internal_callback with the oldest
\* message received, once the previous call has returned.
Deliver ==
    /\ pc = "consuming"
    /\ inflight = NoBody
    /\ prefetched # <<>>
    /\ inflight' = Head(prefetched)
    /\ prefetched' = Tail(prefetched)
    /\ pc' = "cb_loads"
    /\ dBody' = Head(prefetched)
    /\ dHandler' = "pending"
    /\ dAcked' = FALSE
    /\ dEngine' = <<>>
    /\ dAgg' = <<>>
    /\ dReports' = <<>>
    /\ dLogged' = <<>>
    /\ UNCHANGED <<environ, brokerUp, exitCode, restarts, queue, published, disk, localVars,
                   redisVars, dFirst, sideVars>>

\* start_consumer without its except clause: the exception goes on through
\* start into main, which logs it and calls exit(1).
Unwind_into_main(handler) ==
    /\ pc' = "exited"
    /\ exitCode' = "1"
    /\ queue' = Requeued
    /\ prefetched' = <<>>
    /\ inflight' = NoBody
    /\ dHandler' = handler
    /\ dFirst' = Unacknowledged
    /\ message' = NoValue
    /\ id' = ""
    /\ todo' = <<>>
    /\ question_level_list' = <<>>
    /\ final_response' = NoResponse
    /\ exc' = NoExc
    /\ UNCHANGED <<environ, brokerUp, restarts, published, disk>>

\* An exception leaves internal_callback: start_consuming raises it, the
\* "with" block closes the connection, start_consumer logs it and returns,
\* main returns.  handler is "raised" when the exception came out of the
\* handler and "dropped" when internal_callback raised before calling it.
Unwind(handler) ==
    /\ pc' = "exited"
    /\ exitCode' = "0"
    /\ queue' = Requeued
    /\ prefetched' = <<>>
    /\ inflight' = NoBody
    /\ dHandler' = handler
    /\ dFirst' = Unacknowledged
    /\ message' = NoValue
    /\ id' = ""
    /\ todo' = <<>>
    /\ question_level_list' = <<>>
    /\ final_response' = NoResponse
    /\ exc' = NoExc
    /\ UNCHANGED <<environ, brokerUp, restarts, published, disk>>

\* internal_callback: message = json.loads(body); then callback(message).
CB_JsonLoads ==
    /\ pc = "cb_loads"
    /\ LET v == json_loads(inflight) IN
       IF v.type = "raise"
       THEN /\ Unwind("dropped")
            /\ UNCHANGED <<dBody, dAcked, dEngine, dAgg, dReports, dLogged>>
       ELSE /\ message' = v
            /\ pc' = "pm_eval"
            /\ dHandler' = "running"
            /\ UNCHANGED <<environ, brokerUp, exitCode, restarts, brokerVars, id, todo,
                           question_level_list, final_response, exc,
                           dBody, dAcked, dEngine, dAgg, dReports, dLogged, dFirst>>
    /\ UNCHANGED <<redisVars, sideVars>>

(***************************************************************************)
(* ProcessingService.process_message and _process_single_document.         *)
(***************************************************************************)

\* Lines 204-208, before the try: message = eval(message);
\* id = message.get('id', {}).  An exception here is outside the try block.
PM_Eval ==
    /\ pc = "pm_eval"
    /\ LET m == py_eval(message)
           i == IF m.type = "raise" THEN m ELSE get_id(m)
       IN
       IF i.type = "raise"
       THEN /\ Unwind("raised")
       ELSE /\ message' = m
            /\ id' = i.text
            /\ pc' = "psd_begin"
            /\ UNCHANGED <<environ, brokerUp, exitCode, restarts, brokerVars, todo,
                           question_level_list, final_response, exc, dHandler, dFirst>>
    /\ UNCHANGED <<dBody, dAcked, dEngine, dAgg, dReports, dLogged, redisVars, sideVars>>

\* An exception of the loop that is logged and dropped: the handler goes on
\* with the aggregate.
Caught_and_go_on(e) ==
    /\ exc' = exc
    /\ pc' = "psd_agg"

\* An exception raised inside the try block of process_message reaches the
\* except clause.
Caught(e) ==
    /\ exc' = e
    /\ pc' = "pm_except"

\* _process_single_document up to the loop header:
\* question_level_list = list(); for ... in message["interview"].
PSD_Begin ==
    /\ pc = "psd_begin"
    /\ IF "interview" \notin message.job.has
       THEN /\ Caught("KeyError: 'interview'")
            /\ UNCHANGED <<todo, question_level_list>>
       ELSE /\ todo' = message.job.interview
            /\ question_level_list' = <<>>
            /\ pc' = IF message.job.interview = <<>> THEN "psd_agg" ELSE "psd_loop"
            /\ exc' = exc
    /\ UNCHANGED <<environ, brokerUp, exitCode, restarts, brokerVars, message, id, final_response,
                   redisVars, histVars, sideVars>>

\* The review dict that generate_review returns: the engine's review with
\* the scores of calculate_scores and the item's qid, technologies and tags.
QuestionReview(item) ==
    LET s == calculate_scores(chain_invoke(item).scoring, item.point) IN
    [qid |-> item.qid, technologies |-> item.technologies, tags |-> item.tags,
     average_points |-> s.average_points, average_percentage |-> s.average_percentage]

NoReview == [qid |-> "", technologies |-> {}, tags |-> {}, average_points |-> 0,
             average_percentage |-> 0]

\* The keys of the item that the argument of chain.invoke reads.
InvokeKeys == {"technologies", "tags", "level", "questionText", "questionExplanation",
               "transcriptText"}

Reviewed(called, raised, review) == [raised |-> raised, called |-> called, review |-> review]

\* InterviewQuestionReviewService.generate_review(item): the dict for
\* chain.invoke is built from the item's keys, the engine is called (ok: the
\* call returns), calculate_scores is applied to review['scoring'] and
\* item["point"], and the review gets the item's qid.  called tells whether
\* the engine was called, raised the exception that came out.
generate_review(item, ok) ==
    IF ~(InvokeKeys \subseteq item.has) THEN Reviewed(FALSE, "KeyError", NoReview)
    ELSE IF ~ok THEN Reviewed(TRUE, "EngineError: question", NoReview)
    ELSE IF "point" \notin item.has THEN Reviewed(TRUE, "KeyError", NoReview)
    ELSE IF calculate_scores(chain_invoke(item).scoring, item.point).raised # NoExc
    THEN Reviewed(TRUE, calculate_scores(chain_invoke(item).scoring, item.point).raised,
                  NoReview)
    ELSE IF "qid" \notin item.has THEN Reviewed(TRUE, "KeyError", NoReview)
    ELSE Reviewed(TRUE, NoExc, QuestionReview(item))

\* The engine call of a question, as the history keeps it: whether the call
\* returned, and whether generate_review returned a scored review.
EngineCall(item, ok, r) == [qid |-> item.qid, ok |-> ok, scored |-> r.raised = NoExc]

\* The loop as it would be with the engine call wrapped in try/except/continue:
\* a failed question is skipped and the loop goes on.
PSD_Question_skip_failed(ok) ==
    LET r == generate_review(Head(todo), ok) IN
    /\ pc = "psd_loop"
    /\ todo # <<>>
    /\ dEngine' = IF r.called THEN Append(dEngine, EngineCall(Head(todo), ok, r)) ELSE dEngine
    /\ question_level_list' = IF r.raised = NoExc
                              THEN Append(question_level_list, r.review)
                              ELSE question_level_list
    /\ todo' = Tail(todo)
    /\ pc' = IF Tail(todo) = <<>> THEN "psd_agg" ELSE "psd_loop"
    /\ exc' = exc
    /\ UNCHANGED <<environ, brokerUp, exitCode, restarts, brokerVars, message, id,
                   final_response, redisVars, dBody, dHandler, dAcked, dAgg, dReports,
                   dLogged, dFirst, sideVars>>

\* The loop with the review inserted at the front of the list.
Collect_at_front(list, review) == <<review>> \o list

\* question_level_list.append(interview_question_review)
Collect(list, review) == Append(list, review)

\* The for statement that goes to the aggregate after the first question.
LoopNext_once(rest) == "psd_agg"

\* The for statement over message["interview"]: the next item, or the
\* statement after the loop.
LoopNext(rest) == IF rest = <<>> THEN "psd_agg" ELSE "psd_loop"

\* One iteration of the loop of _process_single_document: generate_review of
\* the next item either raises or gives a review that is appended.
PSD_Question(ok) ==
    LET r == generate_review(Head(todo), ok) IN
    /\ pc = "psd_loop"
    /\ todo # <<>>
    /\ dEngine' = IF r.called THEN Append(dEngine, EngineCall(Head(todo), ok, r)) ELSE dEngine
    /\ IF r.raised = NoExc
       THEN /\ question_level_list' = Collect(question_level_list, r.review)
            /\ todo' = Tail(todo)
            /\ pc' = LoopNext(Tail(todo))
            /\ exc' = exc
       ELSE /\ Caught(r.raised)
            /\ UNCHANGED <<todo, question_level_list>>
    /\ UNCHANGED <<environ, brokerUp, exitCode, restarts, brokerVars, message, id, final_response,
                   redisVars, dHandler, dBody, dAcked, dAgg, dReports, dLogged, dFirst,
                   sideVars>>

\* The aggregate with an average of 0 for an empty list instead of the
\* division by len(data).
PSD_Aggregate_empty_is_zero(ok) ==
    /\ pc = "psd_agg"
    /\ dAgg' = Append(dAgg, ok)
    /\ IF ~ok
       THEN /\ Caught("EngineError: aggregate")
            /\ UNCHANGED final_response
       ELSE IF "id" \notin message.job.has
       THEN /\ Caught("KeyError: 'id'")
            /\ UNCHANGED final_response
       ELSE IF "profile" \notin message.job.has
       THEN /\ Caught("KeyError: 'profile'")
            /\ UNCHANGED final_response
       ELSE /\ LET r == IF Len(question_level_list) = 0 THEN NoOverall
                        ELSE extract_and_process_interview_data(question_level_list) IN
               final_response' = [technologies |-> r.technologies,
                                  tags |-> r.tags,
                                  id |-> message.job.id,
                                  profile |-> message.job.profile,
                                  average_percentage |-> r.average_percentage,
                                  total_score |-> r.total_score,
                                  overall_performance |-> r.overall_performance,
                                  individual_result |-> question_level_list,
                                  built |-> TRUE]
            /\ pc' = "psd_report"
            /\ exc' = exc
    /\ UNCHANGED <<environ, brokerUp, exitCode, restarts, brokerVars, message, id, todo,
                   question_level_list, redisVars, dHandler, dBody, dAcked, dEngine,
                   dReports, dLogged, dFirst, sideVars>>

\* service2.generate_review(question_level_list), then the id and profile of
\* the message are attached (lines 282-285): the aggregate engine call, the
\* division by len(data), message["id"], message["profile"].
PSD_Aggregate(ok) ==
    /\ pc = "psd_agg"
    /\ dAgg' = Append(dAgg, ok)
    /\ IF ~ok
       THEN /\ Caught("EngineError: aggregate")
            /\ UNCHANGED final_response
       ELSE IF Len(question_level_list) = 0
       THEN /\ Caught("ZeroDivisionError")
            /\ UNCHANGED final_response
       ELSE IF "id" \notin message.job.has
       THEN /\ Caught("KeyError: 'id'")
            /\ UNCHANGED final_response
       ELSE IF "profile" \notin message.job.has
       THEN /\ Caught("KeyError: 'profile'")
            /\ UNCHANGED final_response
       ELSE /\ LET r == extract_and_process_interview_data(question_level_list) IN
               final_response' = [technologies |-> r.technologies,
                                  tags |-> r.tags,
                                  id |-> message.job.id,
                                  profile |-> message.job.profile,
                                  average_percentage |-> r.average_percentage,
                                  total_score |-> r.total_score,
                                  overall_performance |-> r.overall_performance,
                                  individual_result |-> question_level_list,
                                  built |-> TRUE]
            /\ pc' = "psd_report"
            /\ exc' = exc
    /\ UNCHANGED <<environ, brokerUp, exitCode, restarts, brokerVars, message, id, todo,
                   question_level_list, redisVars, dHandler, dBody, dAcked, dEngine,
                   dReports, dLogged, dFirst, sideVars>>

\* send_ai_result with the fixed path .../ai-result/ and no id after it.
url_without_id(data) == ""

\* url = f".../external/ai-result/{data['id']}": the last segment of the path.
url(data) == data.id

\* send_ai_result called again, once, when the PATCH did not answer 200.
PSD_Report_retry(outcome) ==
    /\ pc = "psd_report"
    /\ dReports' = Append(dReports, [data |-> final_response,
                                     outcome |-> outcome,
                                     url_id |-> url(final_response)])
    /\ IF outcome # "200" /\ dReports = <<>>
       THEN /\ pc' = "psd_report"
            /\ exc' = exc
       ELSE IF outcome = "raise"
       THEN Caught("ConnectionError")
       ELSE /\ pc' = "pm_finally"
            /\ exc' = exc
    /\ UNCHANGED <<environ, brokerUp, exitCode, restarts, brokerVars, message, id, todo,
                   question_level_list, final_response, redisVars, dHandler,
                   dBody, dAcked, dEngine, dAgg, dLogged, dFirst, sideVars>>

\* send_ai_result(final_response): one PATCH to .../ai-result/{id}.  A 200 and
\* any other status are only printed; an exception of requests.patch
\* (connection error, timeout) is not caught in send_ai_result.
PSD_Report(outcome) ==
    /\ pc = "psd_report"
    /\ dReports' = Append(dReports, [data |-> final_response,
                                     outcome |-> outcome,
                                     url_id |-> url(final_response)])
    /\ IF outcome = "raise"
       THEN Caught("ConnectionError")
       ELSE /\ pc' = "pm_finally"
            /\ exc' = exc
    /\ UNCHANGED <<environ, brokerUp, exitCode, restarts, brokerVars, message, id, todo,
                   question_level_list, final_response, redisVars, dHandler,
                   dBody, dAcked, dEngine, dAgg, dLogged, dFirst, sideVars>>

ReportOutcomes == {"200", "non200", "raise"}

(***************************************************************************)
(* ProcessingEvent, RedisClient, log_event.                                *)
(***************************************************************************)
RETENTION_SECONDS == 2592000

EventFields == {"service_name", "cid", "organization", "status", "datetime",
                "details", "error", "error_description", "retry_count"}

\* The ProcessingEvent log_event builds in the except clause (lines 239-247).
FailedEvent(cid, details, description, now) ==
    [status |-> "FAILED",
     error |-> "ProcessingError",
     cid |-> cid,
     details |-> details,
     service_name |-> "InterviewReviewService",
     organization |-> "",
     datetime |-> now,
     error_description |-> description,
     retry_count |-> None]

\* str() of an event field: details is a dict and becomes its repr; the other
\* fields are text already (status by ProcessingStatus.__str__).
FieldText(event, f) ==
    IF f = "details" THEN [repr |-> event.details] ELSE event[f]

\* Only the fields that are not None are written.
to_dict_without_none(event) ==
    [f \in {g \in EventFields : ~(g \in {"error", "error_description", "retry_count"}
                                     /\ event[g] = None)} |-> FieldText(event, f)]

\* ProcessingEvent.to_dict: every field as text, None as ''.
to_dict(event) ==
    [f \in EventFields |->
        IF f \in {"error", "error_description", "retry_count"} /\ event[f] = None
        THEN ""
        ELSE FieldText(event, f)]

\* Redis HMSET: the given fields are set, the others stay.
hmset(h, d) ==
    [f \in (DOMAIN h) \cup (DOMAIN d) |-> IF f \in DOMAIN d THEN d[f] ELSE h[f]]

\* dict.get(field, default) on the result of HGETALL.
hget(h, f, default) == IF f \in DOMAIN h THEN h[f] ELSE default

\* Every job recorded under one key.
StatusKey_one_key(cid) == <<"status", "j1">>

\* key = f"status:{cid}"
StatusKey(cid) == <<"status", cid>>

ResponseKey(request_id) == <<"interview_response", request_id>>

\* The except clause of process_message: log_event builds the event and
\* store_event issues HMSET; a Redis error propagates out of log_event, out of
\* the except clause and, after the finally clause, out of process_message.
PM_Except(redisOk) ==
    /\ pc = "pm_except"
    /\ LET event == FailedEvent(id, message.job, exc, clock) IN
       /\ clock' = IF redisOk THEN clock + 1 ELSE clock
       /\ dLogged' = Append(dLogged, [event |-> event, hmset |-> redisOk,
                                      expire |-> "none"])
       /\ IF redisOk
          THEN /\ store' = [store EXCEPT ![StatusKey(id)] = hmset(@, to_dict(event))]
               /\ pc' = "pm_expire"
               /\ exc' = exc
          ELSE /\ store' = store
               /\ pc' = "pm_finally"
               /\ exc' = "RedisError"
    /\ UNCHANGED <<environ, brokerUp, exitCode, restarts, brokerVars, message, id, todo,
                   question_level_list, final_response, expiry, dHandler, dBody, dAcked,
                   dEngine, dAgg, dReports, dFirst, sideVars>>

\* store_event, second call: EXPIRE key 2592000; then log_event returns and the
\* except clause ends, the exception handled.
PM_Expire(redisOk) ==
    /\ pc = "pm_expire"
    /\ pc' = "pm_finally"
    /\ dLogged' = [dLogged EXCEPT ![Len(dLogged)].expire =
                                    IF redisOk THEN "ok" ELSE "raise"]
    /\ IF redisOk
       THEN /\ expiry' = [expiry EXCEPT ![StatusKey(id)] = RETENTION_SECONDS]
            /\ exc' = NoExc
       ELSE /\ expiry' = expiry
            /\ exc' = "RedisError"
    /\ UNCHANGED <<environ, brokerUp, exitCode, restarts, brokerVars, message, id, todo,
                   question_level_list, final_response, store, clock, dBody,
                   dHandler, dAcked, dEngine, dAgg, dReports, dFirst, sideVars>>

\* ProcessingEvent(...) as log_event builds it from its arguments; now is
\* datetime.utcnow().isoformat(), and retry_count the count in decimal.
ProcessingEvent(cid, status, details, error, error_description, retry_count, now) ==
    [status |-> status,
     error |-> error,
     cid |-> cid,
     details |-> details,
     service_name |-> "InterviewReviewService",
     organization |-> "",
     datetime |-> now,
     error_description |-> error_description,
     retry_count |-> retry_count]

\* The arguments log_event is called with: a failure with its error, a
\* success without optional arguments, a retry with its count.
LogCalls ==
    { [status |-> "FAILED", error |-> "ProcessingError", error_description |-> "boom",
       retry_count |-> None],
      [status |-> "SUCCESS", error |-> None, error_description |-> None,
       retry_count |-> None],
      [status |-> "RETRYING", error |-> None, error_description |-> None,
       retry_count |-> "1"] }

\* store_event of process p, first command: key = f"status:{event.cid}",
\* HMSET key event.to_dict().
StoreEvent_Hmset(p, call) ==
    /\ writers[p].at = "idle"
    /\ Len(writers[p].issued) < MaxEvents
    /\ LET event == ProcessingEvent(JobOf(p), call.status, NoJob, call.error,
                                    call.error_description, call.retry_count, clock)
           key == StatusKey(event.cid) IN
       /\ store' = [store EXCEPT ![key] = hmset(@, to_dict(event))]
       /\ writers' = [writers EXCEPT ![p] = [at |-> "expire",
                                              issued |-> Append(@.issued, event)]]
    /\ clock' = clock + 1
    /\ UNCHANGED <<procVars, brokerVars, localVars, expiry, histVars, poll, sent,
                   scoreVars, cacheVars, kafkaVars>>

\* store_event of process p, second command: EXPIRE key 2592000.
StoreEvent_Expire(p) ==
    /\ writers[p].at = "expire"
    /\ LET event == writers[p].issued[Len(writers[p].issued)] IN
       expiry' = [expiry EXCEPT ![StatusKey(event.cid)] = RETENTION_SECONDS]
    /\ writers' = [writers EXCEPT ![p].at = "idle"]
    /\ UNCHANGED <<procVars, brokerVars, localVars, store, clock, histVars, poll, sent,
                   scoreVars, cacheVars, kafkaVars>>

\* basic_ack moved into a finally clause of internal_callback: reached also
\* when the handler raised.
AfterHandler_ack_in_finally(pending) == "cb_ack"

\* Where control goes after the finally clause of process_message: back into
\* internal_callback, to basic_ack, when no exception is propagating.
AfterHandler(pending) == IF pending = NoExc THEN "cb_ack" ELSE "unwind"

\* finally: _clean_up_temp_files(None, None) removes nothing; then
\* process_message returns or the pending exception goes on.
PM_Finally ==
    /\ pc = "pm_finally"
    /\ IF AfterHandler(exc) = "cb_ack"
       THEN /\ pc' = "cb_ack"
            /\ dHandler' = IF exc = NoExc THEN "returned" ELSE "raised"
            /\ message' = NoValue
            /\ id' = ""
            /\ todo' = <<>>
            /\ question_level_list' = <<>>
            /\ final_response' = NoResponse
            /\ exc' = NoExc
            /\ UNCHANGED <<environ, brokerUp, exitCode, restarts, brokerVars, dFirst>>
       ELSE Unwind("raised")
    /\ UNCHANGED <<redisVars, dBody, dAcked, dEngine, dAgg, dReports, dLogged, sideVars>>

\* seq without its first element equal to x.
RECURSIVE RemoveFirst(_, _)
RemoveFirst(seq, x) ==
    IF seq = <<>> THEN <<>>
    ELSE IF Head(seq) = x THEN Tail(seq)
    ELSE <<Head(seq)>> \o RemoveFirst(Tail(seq), x)

\* ch.basic_ack(delivery_tag): the broker drops the message.
CB_Ack ==
    /\ pc = "cb_ack"
    /\ inflight' = NoBody
    /\ disk' = RemoveFirst(disk, inflight)
    /\ dAcked' = TRUE
    /\ dFirst' = NoFirst
    /\ pc' = "consuming"
    /\ UNCHANGED <<environ, brokerUp, exitCode, restarts, queue, prefetched, published,
                   localVars, redisVars, dBody, dHandler, dEngine, dAgg, dReports,
                   dLogged, sideVars>>

\* The process is stopped from outside (kill, host restart) at any point; the
\* connection drops and the broker requeues what was unacknowledged.  Of the
\* history of the delivery that was cut short, what matters afterwards is
\* kept: the message, how far its handling got, and the summary in dFirst.
ProcessStop ==
    /\ pc # "exited"
    /\ pc' = "exited"
    /\ exitCode' = "killed"
    /\ queue' = Requeued
    /\ prefetched' = <<>>
    /\ inflight' = NoBody
    /\ message' = NoValue
    /\ id' = ""
    /\ todo' = <<>>
    /\ question_level_list' = <<>>
    /\ final_response' = NoResponse
    /\ exc' = NoExc
    /\ dFirst' = Unacknowledged
    /\ dEngine' = <<>>
    /\ dAgg' = <<>>
    /\ dReports' = <<>>
    /\ dLogged' = <<>>
    /\ UNCHANGED <<environ, brokerUp, restarts, published, disk, redisVars, dBody, dHandler,
                   dAcked, sideVars>>

\* The service is started again (python rabbitmq_interview_review_service.py):
\* a new process, whose deliveries start a new history.
Restart ==
    /\ pc = "exited"
    /\ restarts < MaxRestarts
    /\ restarts' = restarts + 1
    /\ pc' = "main"
    /\ exitCode' = "none"
    /\ dBody' = NoBody
    /\ dHandler' = "none"
    /\ dAcked' = FALSE
    /\ dEngine' = <<>>
    /\ dAgg' = <<>>
    /\ dReports' = <<>>
    /\ dLogged' = <<>>
    /\ UNCHANGED <<environ, brokerUp, brokerVars, localVars, redisVars, dFirst, sideVars>>

(***************************************************************************)
(* The read interface.                                                     *)
(***************************************************************************)

\* get_latest_status without its "if not status_data" test: a missing key is
\* answered like a record whose fields are absent.
get_latest_status_no_empty_test(cid) ==
    LET status_data == store[StatusKey(cid)] IN
    [id |-> cid, op |-> "get_latest_status", code |-> 0,
     status |-> hget(status_data, "status", ""),
     timestamp |-> hget(status_data, "timestamp", ""),
     fields |-> EmptyHash]

\* RedisClient.get_latest_status(service_name, cid).
get_latest_status(cid) ==
    LET status_data == store[StatusKey(cid)] IN
    IF DOMAIN status_data = {}
    THEN [id |-> cid, op |-> "get_latest_status", code |-> 0,
          status |-> None, timestamp |-> None, fields |-> EmptyHash]
    ELSE [id |-> cid, op |-> "get_latest_status", code |-> 0,
          status |-> hget(status_data, "status", ""),
          timestamp |-> hget(status_data, "timestamp", ""),
          fields |-> EmptyHash]

\* Byte strings found in a hash of the store, written as their text; those of
\* InvalidUtf8 are not UTF-8.
InvalidUtf8 == {"\\xff\\xfe", "\\xffkey"}

\* bytes.decode('utf-8'): the text, or UnicodeDecodeError.
bytes_decode(b) ==
    IF b \in InvalidUtf8 THEN [text |-> "", raised |-> "UnicodeDecodeError"]
    ELSE [text |-> b, raised |-> NoExc]

\* A Python value of a response: its type and the value.
PyStr(text) == [value |-> text, kind |-> "str"]

\* json.loads(decoded_value) on the texts tried: an object, an array and a
\* number parse; anything else there raises JSONDecodeError.
json_loads_text(text) ==
    CASE text = "{\"score\": 8}" ->
            [raised |-> NoExc, value |-> [score |-> 8], kind |-> "dict"]
      [] text = "[\"python\", \"sql\"]" ->
            [raised |-> NoExc, value |-> <<"python", "sql">>, kind |-> "list"]
      [] text = "85" ->
            [raised |-> NoExc, value |-> 85, kind |-> "int"]
      [] OTHER ->
            [raised |-> "JSONDecodeError", value |-> None, kind |-> "none"]

\* Every field parsed, request_id too.
DecodeValue_parse_all(decoded_key, decoded_value) ==
    LET parsed_value == json_loads_text(decoded_value) IN
    IF parsed_value.raised = NoExc
    THEN [value |-> parsed_value.value, kind |-> parsed_value.kind]
    ELSE PyStr(decoded_value)

\* Lines 166-175: request_id as it is, any other field parsed as JSON, and as
\* it is when json.loads raises JSONDecodeError.
DecodeValue(decoded_key, decoded_value) ==
    IF decoded_key = "request_id" THEN PyStr(decoded_value)
    ELSE LET parsed_value == json_loads_text(decoded_value) IN
         IF parsed_value.raised = NoExc
         THEN [value |-> parsed_value.value, kind |-> parsed_value.kind]
         ELSE PyStr(decoded_value)

\* The loop over response_data.items(): a field whose key or value does not
\* decode raises inside the inner try, is logged and left out.
Decodes(key, value) ==
    bytes_decode(key).raised = NoExc /\ bytes_decode(value).raised = NoExc

decoded_response(response_data) ==
    [decoded_key \in {bytes_decode(key).text :
                         key \in {k \in DOMAIN response_data : Decodes(k, response_data[k])}}
        |-> DecodeValue(decoded_key, bytes_decode(response_data[decoded_key]).text)]

\* GET /interview-response/{request_id}: HGETALL interview_response:{id};
\* 404 when empty, else every field decoded (JSON if it parses, else raw).
get_interview_response(request_id) ==
    LET response_data == store[ResponseKey(request_id)] IN
    IF DOMAIN response_data = {}
    THEN [id |-> request_id, op |-> "get_interview_response", code |-> 404,
          status |-> None, timestamp |-> None, fields |-> EmptyHash]
    ELSE [id |-> request_id, op |-> "get_interview_response", code |-> 200,
          status |-> None, timestamp |-> None,
          fields |-> decoded_response(response_data)]

PollLatestStatus(cid) ==
    /\ poll' = get_latest_status(cid)
    /\ UNCHANGED <<procVars, brokerVars, localVars, redisVars, histVars, sent, scoreVars, auxVars>>

PollInterviewResponse(request_id) ==
    /\ poll' = get_interview_response(request_id)
    /\ UNCHANGED <<procVars, brokerVars, localVars, redisVars, histVars, sent, scoreVars, auxVars>>

(***************************************************************************)
(* InterviewQuestionService: the question generator and its cache.  Texts   *)
(* are sequences of characters.                                             *)
(***************************************************************************)
Digit(d) ==
    CASE d = 0 -> "0" [] d = 1 -> "1" [] d = 2 -> "2" [] d = 3 -> "3" [] d = 4 -> "4"
      [] d = 5 -> "5" [] d = 6 -> "6" [] d = 7 -> "7" [] d = 8 -> "8" [] d = 9 -> "9"

\* str(number_of_questions) for a count below 100.
py_str(n) == IF n < 10 THEN <<Digit(n)>> ELSE <<Digit(n \div 10), Digit(n % 10)>>

\* ''.join(args)
RECURSIVE join(_)
join(args) == IF args = <<>> THEN <<>> ELSE Head(args) \o join(Tail(args))

\* hashlib.sha256(key_data.encode()).hexdigest(), taken to be free of
\* collisions: equal digests only for equal key_data.
sha256(key_data) == [hexdigest |-> key_data]

\* InterviewQuestionService.generate_cache_key(*args)
generate_cache_key(args) == sha256(join(args))

\* The arguments of the calls tried.
QuestionArgs ==
    [job_title : {<<"a">>, <<"a", "b">>},
     experience : {<<"c">>, <<"b", "c">>},
     skills : {<<"s">>},
     job_description : {<<"d">>, <<"d", "1">>},
     number_of_questions : {3, 13},
     question_level : {<<"x">>}]

\* self.interview_question_chain.invoke({...}): questions and answers made
\* for these inputs.
interview_question_chain_invoke(inputs) == [generated_for |-> inputs]

\* cache.set(cache_key, interview_questions)
cache_set(c, cache_key, value) ==
    [k \in (DOMAIN c) \cup {cache_key} |-> IF k = cache_key THEN value ELSE c[k]]

\* InterviewQuestionService.generate_interview_questions: the cached result
\* when the key is in the cache, else the engine is asked and its result
\* cached.
GenerateInterviewQuestions(a) ==
    /\ Len(asked) < MaxCalls
    /\ LET cache_key == generate_cache_key(
                            <<a.job_title \o a.experience \o a.skills \o a.job_description,
                              py_str(a.number_of_questions) \o a.question_level>>)
           cached == cache_key \in DOMAIN cache
           result == IF cached THEN cache[cache_key]
                     ELSE interview_question_chain_invoke(a)
       IN /\ asked' = Append(asked, [args |-> a, cache_key |-> cache_key,
                                     hit |-> cached, result |-> result])
          /\ cache' = IF cached THEN cache ELSE cache_set(cache, cache_key, result)
    /\ UNCHANGED <<procVars, brokerVars, localVars, redisVars, histVars, poll, sent,
                   scoreVars, writers, kafkaVars>>

(***************************************************************************)
(* KafkaManager (test_kafaka.py).  The topic is one log; the broker hands   *)
(* a consumer of the group the messages after the group's committed         *)
(* offset, in log order, and close() commits the consumer's position        *)
(* (enable.auto.commit is left at its default).                             *)
(***************************************************************************)
timeout == 10

\* The messages of test_kafka_operations.
TestMessages ==
    { [id |-> 1, message |-> "First test message"],
      [id |-> 2, message |-> "Second test message"] }

\* json.dumps(message).encode('utf-8')
kafka_value(msg) == [utf8 |-> [json |-> msg]]

\* json.loads(msg.value().decode('utf-8'))
kafka_loads(value) == value.utf8.json

\* KafkaManager.produce_message: produce and flush; when the delivery fails
\* delivery_report prints the error and the call returns all the same.
ProduceMessage(msg, delivered) ==
    /\ Len(produced) < MaxProduced
    /\ produced' = Append(produced, [message |-> msg, delivered |-> delivered])
    /\ topic' = IF delivered THEN Append(topic, kafka_value(msg)) ELSE topic
    /\ UNCHANGED <<procVars, brokerVars, localVars, redisVars, histVars, poll, sent,
                   scoreVars, writers, cacheVars, committed, consumer>>

\* consume_messages up to the loop: a consumer of group 'test-group' with
\* auto.offset.reset = earliest, subscribed; messages = []; start_time.
ConsumeBegin ==
    /\ consumer.state \in {"none", "closed"}
    /\ consumer.consumes < MaxConsumes
    /\ consumer' = [state |-> "polling", position |-> committed, start |-> committed,
                    log_end |-> Len(topic), messages |-> <<>>, elapsed |-> 0,
                    error |-> NoExc, returned |-> <<>>,
                    consumes |-> consumer.consumes + 1]
    /\ UNCHANGED <<procVars, brokerVars, localVars, redisVars, histVars, poll, sent,
                   scoreVars, writers, cacheVars, topic, committed, produced>>

\* The message put first in the list.
append_in_front(messages, msg) == <<msg>> \o messages

\* messages.append(message)
append(messages, msg) == Append(messages, msg)

\* One pass of the while loop, entered while less than timeout seconds have
\* gone by: poll(1.0) gives None after a second when the consumer has read
\* the whole log, an error event (printed, then continue: the loop goes on
\* with the error remembered here as KafkaError), or the next
\* message, which is decoded and appended; or an exception is raised, which
\* the except clause after the loop prints.  tick is the time the pass took
\* when poll returned early.
ConsumePoll(outcome, tick) ==
    /\ consumer.state = "polling"
    /\ consumer.elapsed < timeout
    /\ CASE outcome = "None" ->
              /\ consumer.position = Len(topic)
              /\ consumer' = [consumer EXCEPT !.elapsed = @ + 1]
         [] outcome = "error" ->
              consumer' = [consumer EXCEPT !.elapsed = @ + 1, !.error = "KafkaError"]
         [] outcome = "message" ->
              /\ consumer.position < Len(topic)
              /\ consumer' = [consumer EXCEPT
                                !.messages = append(@, kafka_loads(topic[consumer.position + 1])),
                                !.position = @ + 1,
                                !.elapsed = @ + tick]
         [] outcome = "raise" ->
              consumer' = [consumer EXCEPT !.state = "closing", !.error = "KafkaException"]
    /\ UNCHANGED <<procVars, brokerVars, localVars, redisVars, histVars, poll, sent,
                   scoreVars, writers, cacheVars, topic, committed, produced>>

\* finally: consumer.close(); return messages.  Reached when the loop ends
\* at the timeout and after the except clause.
ConsumeFinally ==
    /\ \/ consumer.state = "closing"
       \/ consumer.state = "polling" /\ consumer.elapsed >= timeout
    /\ consumer' = [consumer EXCEPT !.state = "closed", !.returned = consumer.messages]
    /\ committed' = consumer.position
    /\ UNCHANGED <<procVars, brokerVars, localVars, redisVars, histVars, poll, sent,
                   scoreVars, writers, cacheVars, topic, produced>>

(***************************************************************************)
(* Specification.                                                          *)
(***************************************************************************)
\* The steps of a consumer process that runs undisturbed, and of the broker.
Handling ==
    \/ Main_Construct
    \/ Main_CheckHealth
    \/ Main_Start
    \/ BrokerChange
    \/ BrokerDeliver
    \/ Deliver
    \/ CB_JsonLoads
    \/ PM_Eval
    \/ PSD_Begin
    \/ \E ok \in BOOLEAN : PSD_Question(ok)
    \/ \E ok \in BOOLEAN : PSD_Aggregate(ok)
    \/ \E outcome \in ReportOutcomes : PSD_Report(outcome)
    \/ \E redisOk \in BOOLEAN : PM_Except(redisOk)
    \/ \E redisOk \in BOOLEAN : PM_Expire(redisOk)
    \/ PM_Finally
    \/ CB_Ack

\* The consumer process in an environment that stops it and starts it again.
Consumer ==
    \/ Handling
    \/ ProcessStop
    \/ Restart

\* The consumer with publishers of every kind of body.
Next ==
    \/ \E body \in Bodies : Publish(body)
    \/ Consumer

Spec == Init /\ [][Next]_vars

\* One run of the consumer, from its start until it exits or is stopped, with
\* publishers of every kind of body.
NextRun ==
    \/ \E body \in Bodies : Publish(body)
    \/ Handling
    \/ ProcessStop

SpecRun == Init /\ [][NextRun]_vars

\* Jobs that parse into a dict: two that reach the engine and one without
\* its question list.
ReadBodies ==
    { Body("string", "dict", Job("j1", "student", <<Q1, Q2>>, AllKeys)),
      Body("string", "dict", Job("j2", "student", <<Q2>>, AllKeys)),
      Body("string", "dict", Job("j1", "student", <<>>, {"id", "profile"})) }

\* The consumer, publishers of jobs that parse, and nothing else: the
\* scheduling of jobs that reach the engine.
NextJobs ==
    \/ \E body \in ReadBodies : Publish(body)
    \/ Consumer

SpecJobs == Init /\ [][NextJobs]_vars

\* Jobs with every key: one with a question for which the engine returns no
\* scores, one with a question that has no transcriptText, and one whose
\* questions can all be scored.
EngineBodies ==
    { Body("string", "dict", Job("j1", "student", <<Q1, Q3>>, AllKeys)),
      Body("string", "dict", Job("j2", "student", <<Q4, Q2>>, AllKeys)),
      Body("string", "dict", Job("j2", "student", <<Q2, Q1>>, AllKeys)) }

\* The consumer and publishers of those jobs.
NextEngine ==
    \/ \E body \in EngineBodies : Publish(body)
    \/ Consumer

SpecEngine == Init /\ [][NextEngine]_vars

\* One run of the consumer, publishers of jobs that parse, and clients of the
\* read interface polling at any time.
NextRead ==
    \/ \E body \in ReadBodies : Publish(body)
    \/ Handling
    \/ ProcessStop
    \/ \E cid \in CidSet : PollLatestStatus(cid)
    \/ \E request_id \in CidSet : PollInterviewResponse(request_id)

SpecRead == Init /\ [][NextRead]_vars

\* overall_performance = self.calculate_performance(average_percentage)
CalculatePerformance ==
    /\ overall_performance = ""
    /\ overall_performance' = calculate_performance(average_percentage)
    /\ UNCHANGED <<procVars, brokerVars, localVars, redisVars, histVars, poll, sent,
                   average_percentage, scoring, point, scores, reviews, overall,
                   auxVars>>

\* calculate_performance on every average of per-question percentages from 0
\* up to MaxHundredths: the percentages come from the engine's scores, which
\* calculate_scores does not clamp to the scale of 10.
InitScore ==
    /\ InitProcess
    /\ envOk
    /\ brokerUp
    /\ average_percentage \in 0..MaxHundredths
    /\ overall_performance = ""
    /\ IdleScoring

SpecScore == InitScore /\ [][CalculatePerformance]_vars

\* The scores the engine gives per category, and the scoring dicts tried: all
\* of up to MaxCategories categories, and the nine scores of the logged sample.
ScoreValues == {1, 2, 5, 8, 10}
Scorings == UNION {[1..n -> ScoreValues] : n \in 0..MaxCategories} \cup {chain_invoke(Q1).scoring}

\* average_points, average_percentage = self.calculate_scores(review['scoring'],
\* interview_question_details["point"])
CalculateScores ==
    /\ scores = NoScores
    /\ scores' = calculate_scores(scoring, point)
    /\ UNCHANGED <<procVars, brokerVars, localVars, redisVars, histVars, poll, sent,
                   average_percentage, overall_performance, scoring, point, reviews,
                   overall, auxVars>>

InitCalculateScores ==
    /\ InitProcess
    /\ envOk
    /\ brokerUp
    /\ average_percentage = 0
    /\ overall_performance = ""
    /\ scoring \in Scorings
    /\ point \in 1..MaxPoint
    /\ scores = NoScores
    /\ reviews = <<>>
    /\ overall = NoOverall

SpecCalculateScores == InitCalculateScores /\ [][CalculateScores]_vars

\* The environments a deployment can start the service in: every variable
\* set, one variable missing, only the variables without default set, and
\* none set.
ConfigEnvironments ==
    {Variables} \cup {Variables \ {v} : v \in Variables}
        \cup {{Settings[i].key : i \in {j \in 1..Len(Settings) : Settings[j].default = None}}}
        \cup {{}}

InitConfig ==
    /\ environ \in ConfigEnvironments
    /\ InitRun
    /\ average_percentage = 0
    /\ overall_performance = ""
    /\ IdleScoring

\* One run of the service in each of these environments, with jobs published
\* to its queue at any time.
NextConfig ==
    \/ \E body \in ReadBodies : Publish(body)
    \/ Handling

SpecConfig == InitConfig /\ [][NextConfig]_vars

\* The lists of per-question reviews tried: up to MaxReviews reviews, each
\* the review of one of four items.
ReviewLists ==
    UNION {[1..n -> {QuestionReview(q) : q \in {Q1, Q2, Q5, Q6}}] : n \in 1..MaxReviews}

\* overall_result = self.extract_and_process_interview_data(interview_question_details)
ExtractAndProcess ==
    /\ overall = NoOverall
    /\ overall' = extract_and_process_interview_data(reviews)
    /\ UNCHANGED <<procVars, brokerVars, localVars, redisVars, histVars, poll, sent,
                   average_percentage, overall_performance, scoring, point, scores,
                   reviews, auxVars>>

InitExtractAndProcess ==
    /\ InitProcess
    /\ envOk
    /\ brokerUp
    /\ average_percentage = 0
    /\ overall_performance = ""
    /\ scoring = <<>>
    /\ point = 0
    /\ scores = NoScores
    /\ reviews \in ReviewLists
    /\ overall = NoOverall

SpecExtractAndProcess == InitExtractAndProcess /\ [][ExtractAndProcess]_vars

\* The callers of the Queue Client's publish operations, with a broker that
\* is reachable or not at each call.
Messages ==
    { Message(SubmissionJob, TRUE),
      Message(Job("j1", "student", <<Q1, Q2>>, AllKeys), TRUE),
      Message(NoJob, FALSE) }

NextSubmit ==
    \/ BrokerChange
    \/ \E msg \in Messages, reachable \in BOOLEAN : PublishMessage(msg, reachable)
    \/ \E msg \in Messages, reachable \in BOOLEAN : SendMessage(msg, reachable)
    \/ \E tooLarge \in BOOLEAN, reachable \in BOOLEAN : SubmitInterview(tooLarge, reachable)

SpecSubmit == Init /\ [][NextSubmit]_vars

\* Consumer processes that record events for their jobs at the same time,
\* each command of store_event a step of its own.
InitStore ==
    /\ Init
    /\ envOk
    /\ brokerUp

NextStore ==
    \/ \E p \in Processes, call \in LogCalls : StoreEvent_Hmset(p, call)
    \/ \E p \in Processes : StoreEvent_Expire(p)

SpecStore == InitStore /\ [][NextStore]_vars

\* The hashes a client of the store writes under interview_response:{id}:
\* some of these fields, each with one of these values.
ResponseFields == {"request_id", "feedback", "scores", "\\xffkey"}
ResponseValues == {"{\"score\": 8}", "[\"python\", \"sql\"]", "85", "Good answer", "",
                   "\\xff\\xfe"}
ResponseDicts ==
    UNION {[fs -> ResponseValues] : fs \in (SUBSET ResponseFields) \ {{}}}

\* HMSET interview_response:{request_id} of a response that is not stored yet.
WriteResponse(request_id, response) ==
    /\ store[ResponseKey(request_id)] = EmptyHash
    /\ store' = [store EXCEPT ![ResponseKey(request_id)] = hmset(@, response)]
    /\ UNCHANGED <<procVars, brokerVars, localVars, expiry, clock, histVars, sideVars>>

\* Responses stored for job j1 and clients polling for them at any time.
NextResponse ==
    \/ \E response \in ResponseDicts : WriteResponse("j1", response)
    \/ \E request_id \in CidSet : PollInterviewResponse(request_id)

SpecResponse == InitStore /\ [][NextResponse]_vars

\* Callers of the question generator.
NextGenerate == \E a \in QuestionArgs : GenerateInterviewQuestions(a)

SpecGenerate == InitStore /\ [][NextGenerate]_vars

\* Producers of the test messages, and one caller of consume_messages at a
\* time.
NextKafka ==
    \/ \E msg \in TestMessages, delivered \in BOOLEAN : ProduceMessage(msg, delivered)
    \/ ConsumeBegin
    \/ \E outcome \in {"None", "error", "message", "raise"}, tick \in {0, 1} :
           ConsumePoll(outcome, tick)
    \/ ConsumeFinally

SpecKafka == InitStore /\ [][NextKafka]_vars

(***************************************************************************)
(* Vocabulary of the properties, over the history of the last delivery.    *)
(***************************************************************************)
HandlingOver == dHandler \in {"returned", "raised", "dropped"}

\* The callback has finished with the delivery and the consumer has moved on.
MovedOn == pc \notin {"cb_ack", "exited"}

\* The body parses into a dict.
ParsesToDict(body) == body.form = "string" /\ body.text = "dict"

\* The body is a job with every required key.
WellFormed(body) == ParsesToDict(body) /\ body.job.has = AllKeys

\* The body is a JSON object or a dict literal that lacks a required key.
MissingField(body) ==
    /\ body.form = "object" \/ ParsesToDict(body)
    /\ body.job.has # AllKeys

EngineFailed == \E i \in 1..Len(dEngine) : ~dEngine[i].ok

\* Every question of the job got its engine call and the aggregate call was
\* made, all with success.
ScoringSucceeded ==
    /\ WellFormed(dBody)
    /\ Len(dBody.job.interview) >= 1
    /\ Len(dEngine) = Len(dBody.job.interview)
    /\ \A i \in 1..Len(dEngine) : dEngine[i].ok
    /\ dAgg = <<TRUE>>

\* The log_event calls of the delivery with the given status that are in Redis.
Recorded(status) ==
    {i \in 1..Len(dLogged) : dLogged[i].event.status = status /\ dLogged[i].hmset}

ReporterFailed ==
    /\ Len(dReports) = 1
    /\ dReports[1].outcome \in {"non200", "raise"}

StoreWriteFailed ==
    \E i \in 1..Len(dLogged) : ~dLogged[i].hmset \/ dLogged[i].expire = "raise"

\* The text message.get('id', {}) gives for the job of a body.
JobCid(body) == IF "id" \in body.job.has THEN body.job.id ELSE EmptyDictText

(***************************************************************************)
(* C1: a job with N >= 1 questions whose per-question calls and aggregate  *)
(* call all succeed records exactly one SUCCESS event for its id and       *)
(* produces exactly one AggregateResult whose technologies and tags are    *)
(* the unions over the N question items.                                   *)
(***************************************************************************)
C1_OneSuccessEventAndUnion ==
    (ScoringSucceeded /\ dHandler = "returned") =>
        /\ Cardinality(Recorded("SUCCESS")) = 1
        /\ Len(dReports) = 1
        /\ dReports[1].data.technologies =
               UNION {dBody.job.interview[i].technologies :
                          i \in 1..Len(dBody.job.interview)}
        /\ dReports[1].data.tags =
               UNION {dBody.job.interview[i].tags : i \in 1..Len(dBody.job.interview)}

(***************************************************************************)
(* C2: when a per-question engine call of a delivery fails, the reporter   *)
(* is never called for it, exactly one event is logged for it, FAILED,     *)
(* under the job's id, with the originating message alone as its details,  *)
(* and what Redis holds under the job's key is that event and nothing of   *)
(* the per-question results.                                               *)
(***************************************************************************)
C2_FailedQuestionFailsJob ==
    EngineFailed =>
        /\ dReports = <<>>
        /\ Len(dLogged) <= 1
        /\ HandlingOver =>
              /\ Len(dLogged) = 1
              /\ dLogged[1].event.status = "FAILED"
              /\ dLogged[1].event.cid = JobCid(dBody)
              /\ dLogged[1].event.details = dBody.job
              /\ dLogged[1].hmset =>
                    /\ store[StatusKey(JobCid(dBody))] = to_dict(dLogged[1].event)
                    /\ store[StatusKey(JobCid(dBody))]["status"] = "FAILED"
                    /\ store[StatusKey(JobCid(dBody))]["details"] = [repr |-> dBody.job]
              /\ dHandler = "returned" => dLogged[1].hmset

\* The second question of a job failed after the first had been scored, and
\* the FAILED event is in Redis.
C2_Witness ==
    /\ EngineFailed
    /\ Len(dEngine) = 2
    /\ dHandler = "returned"
    /\ Cardinality(Recorded("FAILED")) = 1

(***************************************************************************)
(* C3: whatever exception arises while a delivery is handled is caught and *)
(* swallowed: no delivery ends with an exception leaving the callback, and *)
(* a delivery whose engine call failed ends with a FAILED event carrying   *)
(* the error text.                                                         *)
(***************************************************************************)
C3_EveryExceptionSwallowed ==
    /\ dHandler \notin {"raised", "dropped"}
    /\ (EngineFailed /\ dHandler = "returned") =>
           /\ Cardinality(Recorded("FAILED")) = 1
           /\ dLogged[1].event.error_description # None

(***************************************************************************)
(* C4: a delivery is acknowledged only after its handler returned without  *)
(* raising, and then as the next thing the callback does; while the        *)
(* handler runs, and after it raised or the process was stopped, the       *)
(* message is unacknowledged: held by the broker for this consumer, or     *)
(* back at the head of the queue once the connection is gone.              *)
(***************************************************************************)
C4_AckOnlyAfterHandlerReturned ==
    /\ dAcked => dHandler = "returned"
    /\ (dHandler \in {"pending", "running"} /\ pc # "exited") =>
           ~dAcked /\ inflight = dBody
    /\ (dHandler = "returned" /\ pc = "cb_ack") => ~dAcked /\ inflight = dBody
    /\ (dHandler = "returned" /\ MovedOn) => dAcked
    /\ (dHandler \in {"pending", "running", "raised", "dropped"} /\ pc = "exited") =>
           /\ ~dAcked
           /\ inflight = NoBody
           /\ queue # <<>>
           /\ Head(queue) = dBody

\* A delivery whose handler logged a failure and returned was acknowledged.
C4_Witness ==
    /\ dAcked
    /\ dHandler = "returned"
    /\ Len(dLogged) = 1
    /\ inflight = NoBody

(***************************************************************************)
(* C5: a delivered message that lacks a required field (question list, id  *)
(* or profile) gets a FAILED event with error "ProcessingError", is        *)
(* acknowledged, and the consumer goes on.                                 *)
(***************************************************************************)
C5_MalformedIsFailedAndAcked ==
    (MissingField(dBody) /\ HandlingOver) =>
        /\ dHandler = "returned"
        /\ \E i \in Recorded("FAILED") : dLogged[i].event.error = "ProcessingError"
        /\ MovedOn => dAcked

(***************************************************************************)
(* C6: when the broker is unreachable at the health check of main(), or    *)
(* the configuration is bad, the process does not go on to start           *)
(* consuming: it ends, with a non-zero status.                             *)
(***************************************************************************)
C6_NoStartWhenBrokerDown ==
    [][ /\ (pc = "health" /\ ~brokerUp /\ pc' # "health") =>
               (pc' = "exited" /\ exitCode' \in {"1", "killed"})
        /\ (pc = "main" /\ ~envOk /\ pc' # "main") =>
               (pc' = "exited" /\ exitCode' \in {"1", "killed"}) ]_vars

(***************************************************************************)
(* C7: what ProcessingService.check_health yields is true for its caller   *)
(* exactly when the queue health check succeeds.                           *)
(***************************************************************************)
C7_HealthIsQueueHealth ==
    pc = "health" =>
        (Truthy(Service_check_health(brokerUp)) = RabbitMQ_check_health(brokerUp))

(***************************************************************************)
(* C8: for a job whose scoring succeeded, a reporter failure (a non-200    *)
(* answer or an exception of the call) records no FAILED event, does not   *)
(* make the handler raise, and the message is acknowledged with SUCCESS as *)
(* the job's recorded status.                                              *)
(***************************************************************************)
C8_ReporterFailureIsNotFailed ==
    (ScoringSucceeded /\ ReporterFailed) =>
        /\ \A i \in 1..Len(dLogged) : dLogged[i].event.status # "FAILED"
        /\ dHandler # "raised"
        /\ (dHandler = "returned" /\ MovedOn) => dAcked
        /\ dAcked => Cardinality(Recorded("SUCCESS")) = 1

(***************************************************************************)
(* C9: a failed Status Store write never leaves process_message as an      *)
(* exception; the message is still acknowledged and the consumer goes on.  *)
(***************************************************************************)
C9_StoreFailureIsNotFatal ==
    StoreWriteFailed =>
        /\ dHandler # "raised"
        /\ (HandlingOver /\ MovedOn) => dAcked
        /\ pc = "exited" => exitCode = "killed"

(***************************************************************************)
(* C10: once no job is in progress, a poll of the read interface for an id *)
(* under which the Processing Service has written a record answers with    *)
(* that record: found, with its status and its error description.          *)
(***************************************************************************)
C10_PollReturnsWrittenRecord ==
    [][ (/\ poll' # poll
         /\ poll'.op = "get_interview_response"
         /\ pc \in {"consuming", "exited"}
         /\ inflight = NoBody
         /\ DOMAIN store[StatusKey(poll'.id)] # {}) =>
            /\ poll'.code = 200
            /\ hget(poll'.fields, "status", "") = store[StatusKey(poll'.id)]["status"]
            /\ hget(poll'.fields, "error_description", "") =
                   store[StatusKey(poll'.id)]["error_description"] ]_vars

\* The key a read operation looks up.
PolledKey(answer) ==
    IF answer.op = "get_latest_status" THEN StatusKey(answer.id) ELSE ResponseKey(answer.id)

\* The last log_event call of the delivery, when both Redis calls of its
\* store_event succeeded.
Stored(i) == dLogged[i].hmset /\ dLogged[i].expire = "ok"

(***************************************************************************)
(* C11: a read for an id whose key holds no record answers not-found:      *)
(* get_latest_status gives (None, None) and get_interview_response gives   *)
(* 404 with no mapping; and an answer that is not not-found comes from a   *)
(* record that is there.                                                   *)
(***************************************************************************)
C11_UnknownIdIsNotFound ==
    [][ poll' # poll =>
          /\ (DOMAIN store[PolledKey(poll')] = {} /\ poll'.op = "get_latest_status") =>
                 (poll'.status = None /\ poll'.timestamp = None)
          /\ (DOMAIN store[PolledKey(poll')] = {} /\ poll'.op = "get_interview_response") =>
                 (poll'.code = 404 /\ DOMAIN poll'.fields = {})
          /\ (poll'.status # None \/ poll'.code = 200) =>
                 DOMAIN store[PolledKey(poll')] # {} ]_vars

\* get_latest_status answered not-found for j2 while a record of j1 is stored.
C11_Witness ==
    /\ poll.op = "get_latest_status"
    /\ poll.id = "j2"
    /\ poll.status = None
    /\ poll.timestamp = None
    /\ DOMAIN store[StatusKey("j1")] # {}
    /\ DOMAIN store[StatusKey("j2")] = {}

(***************************************************************************)
(* C12: after a store_event that succeeded, get_latest_status for the      *)
(* event's id gives the status and the timestamp of that event, and the    *)
(* key holds the fields of that event only.                                *)
(***************************************************************************)
C12_ReadAfterWrite ==
    [][ (/\ poll' # poll
         /\ poll'.op = "get_latest_status"
         /\ pc \in {"consuming", "exited"}
         /\ Len(dLogged) >= 1
         /\ Stored(Len(dLogged))
         /\ dLogged[Len(dLogged)].event.cid = poll'.id) =>
            /\ store[StatusKey(poll'.id)] = to_dict(dLogged[Len(dLogged)].event)
            /\ poll'.status = dLogged[Len(dLogged)].event.status
            /\ poll'.timestamp # ""
            /\ poll'.timestamp # None
            /\ poll'.timestamp = to_dict(dLogged[Len(dLogged)].event)["datetime"] ]_vars

(***************************************************************************)
(* C13: whenever no store_event call is under way, every record in the     *)
(* Status Store has an expiry, of at most 2592000 seconds; this also after *)
(* the writer was stopped between its two Redis calls.                     *)
(***************************************************************************)
C13_EveryRecordExpires ==
    pc # "pm_expire" =>
        \A k \in Keys :
            DOMAIN store[k] # {} => (expiry[k] >= 1 /\ expiry[k] <= RETENTION_SECONDS)

\* A step that is a call of the publish operation op.
CallOf(op) == sent'.op = op /\ <<sent, published>>' # <<sent, published>>

(***************************************************************************)
(* C15: publish_message raises nothing to its caller; with the broker      *)
(* unreachable it returns False; it returns True exactly when the message  *)
(* was appended to the queue, and False leaves the queue as it was.        *)
(***************************************************************************)
C15_PublishMessageReturnsOutcome ==
    [][ CallOf("publish_message") =>
          /\ ~sent'.raised
          /\ sent'.result \in {"True", "False"}
          /\ ~sent'.reachable => sent'.result = "False"
          /\ sent'.result = "True" <=> queue' = Append(queue, json_dumps(sent'.message))
          /\ sent'.result = "False" <=> queue' = queue ]_vars

\* publish_message returned False for a call made while the broker was
\* unreachable, after an earlier message had been enqueued.
C15_Witness ==
    /\ sent.op = "publish_message"
    /\ ~sent.reachable
    /\ sent.message.serializable
    /\ sent.result = "False"
    /\ Len(queue) = 1

(***************************************************************************)
(* C16: of two calls of the same publish operation, one whose message was  *)
(* enqueued and one whose message was not, the callers observe different   *)
(* outcomes (value returned, exception raised).                            *)
(***************************************************************************)
C16_NoSilentDrop ==
    [][ (/\ sent.op \in {"publish_message", "send_message"}
         /\ CallOf(sent.op)
         /\ sent'.enqueued # sent.enqueued) =>
            <<sent'.result, sent'.raised>> # <<sent.result, sent.raised>> ]_vars

(***************************************************************************)
(* C17: submit_interview answers "success" only when the message was       *)
(* enqueued; when the publish failed it answers with an error.             *)
(***************************************************************************)
C17_SuccessMeansEnqueued ==
    sent.op = "submit_interview" =>
        /\ sent.http = 200 => sent.enqueued
        /\ ~sent.enqueued => sent.http >= 400

(***************************************************************************)
(* C20: calculate_performance gives excellent for every average of 90 or   *)
(* more, good from 75 up to 90, average from 50 up to 75, below_average    *)
(* from 30 up to 50 and poor below 30 (the average in hundredths).         *)
(***************************************************************************)
C20_BandsByLowerBound ==
    overall_performance # "" =>
        overall_performance =
            CASE average_percentage >= 9000 -> "excellent"
              [] average_percentage >= 7500 /\ average_percentage < 9000 -> "good"
              [] average_percentage >= 5000 /\ average_percentage < 7500 -> "average"
              [] average_percentage >= 3000 /\ average_percentage < 5000 -> "below_average"
              [] average_percentage < 3000 -> "poor"

Terminal == {"SUCCESS", "FAILED"}

C14_RedeliveryIsProcessedTwice ==
    (/\ dFirst.done = 1
     /\ ScoringSucceeded
     /\ Len(dReports) = 1
     /\ dHandler = "returned"
     /\ pc = "cb_ack") =>
        /\ dFirst.reports + Len(dReports) = 2
        /\ dReports[1].url_id = dBody.job.id
        /\ dFirst.success + Cardinality(Recorded("SUCCESS")) = 2

\* The qids of the questions of a body's job.
Qids(body) == {body.job.interview[i].qid : i \in 1..Len(body.job.interview)}

(***************************************************************************)
(* C18: a consumer process never has more than one message delivered and   *)
(* unacknowledged; the broker sends it a message only when it has none,    *)
(* so the callback is entered for a message only after the process's       *)
(* previous delivery was acknowledged; and every engine call, reporter     *)
(* call and status write is made for the job of the one message in         *)
(* flight, which stays the same until it is acknowledged or the process    *)
(* ends.                                                                   *)
(***************************************************************************)
C18_OneJobAtATime ==
    [][ /\ UnackedCount' <= 1
        /\ Len(prefetched') > Len(prefetched) => (inflight = NoBody /\ prefetched = <<>>)
        /\ (dHandler' = "pending" /\ dHandler # "pending") =>
               (dHandler = "none" \/ dAcked)
        /\ inflight # NoBody =>
               (inflight' = NoBody \/ (inflight' = inflight /\ dBody' = dBody))
        /\ Len(dEngine') > Len(dEngine) =>
               /\ inflight = dBody /\ ~dAcked
               /\ dEngine'[Len(dEngine')].qid \in Qids(dBody)
        /\ Len(dAgg') > Len(dAgg) => (inflight = dBody /\ ~dAcked)
        /\ Len(dReports') > Len(dReports) =>
               /\ inflight = dBody /\ ~dAcked
               /\ dReports'[Len(dReports')].url_id = dBody.job.id
        /\ Len(dLogged') > Len(dLogged) =>
               /\ inflight = dBody /\ ~dAcked
               /\ dLogged'[Len(dLogged')].event.cid = JobCid(dBody)
        /\ store' # store => (inflight = dBody /\ ~dAcked) ]_vars

\* The first question of job j1 has been scored while another message waits
\* in the queue, which the broker has not sent.
C18_Witness ==
    /\ inflight # NoBody
    /\ inflight.job.id = "j1"
    /\ Len(dEngine) = 1
    /\ pc = "psd_loop"
    /\ queue # <<>>
    /\ prefetched = <<>>
    /\ UnackedCount = 1

\* The quotient num/den rounded half-up to an integer.
HalfUp(num, den) == (2 * num + den) \div (2 * den)

\* C21: calculate_scores returns (mean/10)*weight and (mean/10)*100, each
\* rounded half-up to 2 decimals; for the scores 8,5,6,7,5,8,6,7,7 and weight
\* 2 it returns 1.31 and 65.56.
C21_ScoresRoundedHalfUp ==
    (scores # NoScores /\ scores.raised = NoExc) =>
        /\ scores.average_points
               = HalfUp(Sum(scoring) * point * 100, Len(scoring) * max_score_per_category)
        /\ scores.average_percentage
               = HalfUp(Sum(scoring) * 10000, Len(scoring) * max_score_per_category)
        /\ (scoring = <<8, 5, 6, 7, 5, 8, 6, 7, 7>> /\ point = 2) =>
               (scores.average_points = 131 /\ scores.average_percentage = 6556)

\* The i-th engine call of the delivery returned a review for the i-th
\* question of the job, and the review's scoring dict is empty.
EmptyScoreSet(i) ==
    /\ ParsesToDict(dBody)
    /\ i <= Len(dBody.job.interview)
    /\ dEngine[i].ok
    /\ dEngine[i].qid = dBody.job.interview[i].qid
    /\ chain_invoke(dBody.job.interview[i]).scoring = <<>>

(***************************************************************************)
(* C22: when the engine returns an empty score set for a question, no      *)
(* review with zero points and percentage is produced for it: the question *)
(* is not scored, the loop stops, neither the aggregate call nor the       *)
(* reporter call is made, and the one event logged for the delivery is     *)
(* FAILED under the job's id, stored when the handler returns.             *)
(***************************************************************************)
C22_EmptyScoreSetFailsJob ==
    \A i \in 1..Len(dEngine) :
        EmptyScoreSet(i) =>
            /\ ~dEngine[i].scored
            /\ \A j \in 1..Len(question_level_list) :
                   question_level_list[j].qid # dEngine[i].qid
            /\ Len(dEngine) = i
            /\ dAgg = <<>>
            /\ dReports = <<>>
            /\ Len(dLogged) <= 1
            /\ HandlingOver =>
                  /\ Len(dLogged) = 1
                  /\ dLogged[1].event.status = "FAILED"
                  /\ dLogged[1].event.cid = JobCid(dBody)
                  /\ dHandler = "returned" =>
                        /\ dLogged[1].hmset
                        /\ store[StatusKey(JobCid(dBody))]["status"] = "FAILED"

\* The engine scored the first question and returned no scores for the
\* second; the FAILED event is in Redis and the delivery was acknowledged.
C22_Witness ==
    /\ Len(dEngine) = 2
    /\ dEngine[1].scored
    /\ EmptyScoreSet(2)
    /\ dHandler = "returned"
    /\ dAcked
    /\ Cardinality(Recorded("FAILED")) = 1

\* A question of the job of the delivery has no transcriptText.
NoTranscript ==
    /\ WellFormed(dBody)
    /\ \E k \in 1..Len(dBody.job.interview) :
          "transcriptText" \notin dBody.job.interview[k].has

(***************************************************************************)
(* C23: a question without transcriptText is valid input: when every       *)
(* engine call made for the delivery returned and was scored, no FAILED    *)
(* event is logged for the delivery, and once the handler is over the      *)
(* engine has been called for every question of the job.                   *)
(***************************************************************************)
C23_AbsentTranscriptIsScored ==
    ( /\ NoTranscript
      /\ \A i \in 1..Len(dEngine) : dEngine[i].ok /\ dEngine[i].scored
      /\ \A i \in 1..Len(dAgg) : dAgg[i] ) =>
        /\ \A i \in 1..Len(dLogged) : dLogged[i].event.status # "FAILED"
        /\ HandlingOver => Len(dEngine) = Len(dBody.job.interview)

\* The variables the configuration requires and those it has defaults for.
RequiredValues == {"RABBITMQ_HOST", "RABBITMQ_QUEUE", "RABBITMQ_DEFAULT_USER",
                   "RABBITMQ_DEFAULT_PASS", "REDIS_HOST", "REDIS_PORT", "REDIS_DB"}
DefaultedValues == {"MAX_RETRIES", "RETRY_DELAY", "STATUS_CHECK_TIMEOUT", "TEMP_DIR",
                    "SERVICE_NAME"}

\* No message has been handed to the consumer.
NothingConsumed ==
    /\ prefetched = <<>>
    /\ inflight = NoBody
    /\ dHandler = "none"

(***************************************************************************)
(* C24: when a required value (broker host, queue name, broker user and    *)
(* password, Redis host, port, db) is not set, constructing the service    *)
(* ends the process with status 1, and no message is ever consumed; when   *)
(* only values with defaults (max retries, retry delay, status-check       *)
(* timeout, temp dir, service name) are not set, the construction succeeds *)
(* and the service goes on to its health check.                            *)
(***************************************************************************)
C24_RequiredConfigOrFatal ==
    /\ [](~(RequiredValues \subseteq environ) =>
            (pc \in {"main", "exited"} /\ NothingConsumed))
    /\ [][ (pc = "main" /\ pc' # "main") =>
             /\ ~(RequiredValues \subseteq environ) => (pc' = "exited" /\ exitCode' = "1")
             /\ (Variables \ DefaultedValues) \subseteq environ => pc' = "health" ]_vars

\* The service was started without REDIS_DB while a job was waiting in the
\* queue of a broker that is up: it has exited with status 1.
C24_Witness ==
    /\ "REDIS_DB" \notin environ
    /\ pc = "exited"
    /\ exitCode = "1"
    /\ brokerUp
    /\ queue # <<>>

(***************************************************************************)
(* C25: within one delivery the reporter is called at most once, whatever  *)
(* its outcome, the aggregate engine call is made at most once, and the    *)
(* per-question engine call is made at most once for each question of the  *)
(* job: nothing is retried.                                                *)
(***************************************************************************)
C25_NothingIsRetried ==
    /\ Len(dReports) <= 1
    /\ Len(dAgg) <= 1
    /\ \A i, j \in 1..Len(dEngine) : dEngine[i].qid = dEngine[j].qid => i = j
    /\ dEngine # <<>> => Len(dEngine) <= Len(dBody.job.interview)

\* The reporter call of a job with two questions failed and the handling of
\* the delivery is over: it was made once.
C25_Witness ==
    /\ ReporterFailed
    /\ Len(dEngine) = 2
    /\ HandlingOver
    /\ pc = "consuming"

(***************************************************************************)
(* C26: every message that send_message or publish_message enqueues is a   *)
(* persistent message in the durable queue: with no consumer, the queue    *)
(* holds every message enqueued so far, also after the broker has          *)
(* stopped, and all of them are on the broker's disk.                      *)
(***************************************************************************)
C26_EnqueuedIsDurable ==
    /\ Len(queue) = published
    /\ disk = queue

\* The broker has stopped after send_message and publish_message enqueued a
\* message each: both are still in the queue.
C26_Witness ==
    /\ ~brokerUp
    /\ Len(queue) = 2
    /\ sent.enqueued
    /\ sent.op \in {"send_message", "publish_message"}

\* Every question of the job of the delivery got its engine call, and every
\* call returned a review that was scored.
AllQuestionsScored ==
    /\ ParsesToDict(dBody)
    /\ Len(dEngine) = Len(dBody.job.interview)
    /\ \A i \in 1..Len(dEngine) : dEngine[i].ok /\ dEngine[i].scored

(***************************************************************************)
(* C27: within a delivery the aggregate engine call is made only after     *)
(* every per-question call was made and succeeded, the reporter is called  *)
(* only after that and after the aggregate call succeeded, and a delivery  *)
(* whose scoring succeeded is acknowledged only after its reporter call.   *)
(***************************************************************************)
C27_QuestionsAggregateReportAck ==
    /\ dAgg # <<>> => AllQuestionsScored
    /\ dReports # <<>> => (AllQuestionsScored /\ dAgg = <<TRUE>>)
    /\ (dAcked /\ ScoringSucceeded) => Len(dReports) = 1

\* A job with two questions was scored, reported with a 200 and then
\* acknowledged.
C27_Witness ==
    /\ dAcked
    /\ ScoringSucceeded
    /\ Len(dEngine) = 2
    /\ Len(dReports) = 1
    /\ dReports[1].outcome = "200"

\* The qids of a list of question items or of reviews, in order.
QidsInOrder(list) == [i \in 1..Len(list) |-> list[i].qid]

(***************************************************************************)
(* C28: the per-question engine calls of a delivery are made in the order  *)
(* of the job's question list, one per question, and the individual_result *)
(* of the response that is built and reported has one review per question, *)
(* in the order of the input, each with the qid of its question.           *)
(***************************************************************************)
C28_ResultsInInputOrder ==
    /\ dEngine # <<>> =>
          /\ Len(dEngine) <= Len(dBody.job.interview)
          /\ QidsInOrder(dEngine) = SubSeq(QidsInOrder(dBody.job.interview), 1, Len(dEngine))
    /\ \A i \in 1..Len(dReports) :
          QidsInOrder(dReports[i].data.individual_result)
              = QidsInOrder(dBody.job.interview)
    /\ final_response.built =>
          QidsInOrder(final_response.individual_result) = QidsInOrder(message.job.interview)

\* The response of a job with two questions was reported.
C28_Witness ==
    /\ Len(dReports) = 1
    /\ Len(dReports[1].data.individual_result) = 2
    /\ Len(dEngine) = 2

(***************************************************************************)
(* C29: when the call for the k-th question of a delivery fails, no call   *)
(* for a later question, no aggregate call and no reporter call is made in *)
(* that delivery.                                                          *)
(***************************************************************************)
C29_FailedQuestionAbortsJob ==
    \A k \in 1..Len(dEngine) :
        ~(dEngine[k].ok /\ dEngine[k].scored) =>
            /\ Len(dEngine) = k
            /\ dAgg = <<>>
            /\ dReports = <<>>

\* The call for the first of two questions failed and the handling of the
\* delivery is over.
C29_Witness ==
    /\ Len(dEngine) = 1
    /\ ~dEngine[1].ok
    /\ Len(dBody.job.interview) = 2
    /\ HandlingOver
    /\ dAcked

(***************************************************************************)
(* C30: for a list of reviews that is not empty,                           *)
(* extract_and_process_interview_data returns as total_score the sum of    *)
(* the reviews' weighted points, as average_percentage the mean of their   *)
(* percentages rounded to 2 decimals (a hundredth at most half a hundredth *)
(* from the mean), and as overall_performance the band that                *)
(* calculate_performance gives for that average_percentage.                *)
(***************************************************************************)
C30_TotalsOfTheReviews ==
    overall # NoOverall =>
        /\ overall.total_score = SumOf(reviews, "average_points")
        /\ 2 * (overall.average_percentage * Len(reviews)
                  - SumOf(reviews, "average_percentage")) <= Len(reviews)
        /\ 2 * (SumOf(reviews, "average_percentage")
                  - overall.average_percentage * Len(reviews)) <= Len(reviews)
        /\ overall.overall_performance = calculate_performance(overall.average_percentage)

\* The reviews with 65.56 and 66.67 percent were aggregated: 1.98 points,
\* the mean 66.115 rounded to a hundredth next to it, rated average.
C30_Witness ==
    /\ Len(reviews) = 2
    /\ reviews[1].average_percentage = 6556
    /\ reviews[2].average_percentage = 6667
    /\ overall.total_score = 198
    /\ overall.average_percentage \in {6611, 6612}
    /\ overall.overall_performance = "average"

(***************************************************************************)
(* C31: the response handed to the reporter carries the id and the profile *)
(* of the message of the delivery, the path of the reporter call ends in   *)
(* that id, and the message the handler works on keeps the id and profile  *)
(* of the delivered job.                                                   *)
(***************************************************************************)
C31_IdAndProfileCarriedThrough ==
    /\ \A i \in 1..Len(dReports) :
          /\ dReports[i].data.id = dBody.job.id
          /\ dReports[i].data.profile = dBody.job.profile
          /\ dReports[i].url_id = dBody.job.id
    /\ final_response.built =>
          /\ final_response.id = dBody.job.id
          /\ final_response.profile = dBody.job.profile
    /\ (message.type = "dict" /\ inflight # NoBody) => message.job = dBody.job

\* The result of job j2 was reported with a 200 by a process whose queue got
\* two messages.
C31_Witness ==
    /\ Len(dReports) = 1
    /\ dReports[1].url_id = "j2"
    /\ dReports[1].data.profile = "student"
    /\ dReports[1].outcome = "200"
    /\ published = 2

\* The last event process p issued.
LastIssued(p) == writers[p].issued[Len(writers[p].issued)]

\* C32: while several consumer processes record events at the same time, a
\* command of store_event of the process working on job A leaves the stored
\* record and the expiry of every other job B as they were, and the record
\* of a job is at every moment the event its process issued last, the
\* events of one process carrying increasing times.
C32_OtherJobsUntouchedAndInOrder ==
    /\ [][\A p \in Processes :
            writers'[p] # writers[p] =>
                \A k \in Keys \ {StatusKey(JobOf(p))} :
                    store'[k] = store[k] /\ expiry'[k] = expiry[k]]_vars
    /\ [](\A p \in Processes :
            /\ writers[p].issued # <<>> =>
                    store[StatusKey(JobOf(p))] = to_dict(LastIssued(p))
            /\ \A i, j \in 1..Len(writers[p].issued) :
                    i < j => writers[p].issued[i].datetime < writers[p].issued[j].datetime)

\* Both processes have recorded two events, the commands interleaved, and
\* each job shows its own last event.
C32_Witness ==
    /\ \A p \in Processes : Len(writers[p].issued) = 2 /\ writers[p].at = "idle"
    /\ store[StatusKey("j1")]["status"] = "SUCCESS"
    /\ store[StatusKey("j2")]["status"] = "FAILED"
    /\ writers["p1"].issued[1].datetime < writers["p2"].issued[1].datetime
    /\ writers["p2"].issued[1].datetime < writers["p1"].issued[2].datetime
    /\ expiry[StatusKey("j1")] = RETENTION_SECONDS
    /\ expiry[StatusKey("j2")] = RETENTION_SECONDS

OptionalFields == {"error", "error_description", "retry_count"}

\* C37: after any sequence of store_event calls for a job id, the stored hash
\* holds exactly the fields of ProcessingEvent with the values of the latest
\* event: an optional field the latest event lacks is stored as empty text,
\* whatever an earlier event had there.
C37_HashIsTheLatestEvent ==
    \A p \in Processes :
        writers[p].issued # <<>> =>
            LET h == store[StatusKey(JobOf(p))]
                event == LastIssued(p) IN
            /\ DOMAIN h = EventFields
            /\ \A f \in OptionalFields :
                    h[f] = IF event[f] = None THEN "" ELSE event[f]
            /\ h["status"] = event.status
            /\ h["cid"] = event.cid
            /\ h["datetime"] = event.datetime

\* A failure with error and description was recorded for j1, then a success
\* without them, and the hash of j1 has them empty.
C37_Witness ==
    /\ Len(writers["p1"].issued) = 2
    /\ writers["p1"].issued[1].error = "ProcessingError"
    /\ writers["p1"].issued[1].error_description = "boom"
    /\ writers["p1"].issued[2].status = "SUCCESS"
    /\ store[StatusKey("j1")]["error"] = ""
    /\ store[StatusKey("j1")]["error_description"] = ""

\* The stored texts that are JSON, and the fields of a stored hash that the
\* read path cannot decode as UTF-8.
StructuredTexts == {"{\"score\": 8}", "[\"python\", \"sql\"]", "85"}
Undecodable(h) == {f \in DOMAIN h : f \in InvalidUtf8 \/ h[f] \in InvalidUtf8}

\* What the answer holds for field f of the stored hash h: request_id and
\* text that is not JSON as they are, JSON text as a value that is no text.
ReturnedAsClaimed(fields, h, f) ==
    /\ f \in DOMAIN fields
    /\ IF f = "request_id" \/ h[f] \notin StructuredTexts
       THEN fields[f].kind = "str" /\ fields[f].value = h[f]
       ELSE fields[f].kind # "str"

C34_CleanupWhateverTheOutcome ==
    [][(dHandler = "running" /\ dHandler' \in {"returned", "raised"}) => pc = "pm_finally"]_vars

\* C39: start_consumer never raises to its caller.  Once main has called
\* start, the process ends with status 0 unless it is stopped from outside:
\* also when the connection fails and when an exception leaves the message
\* handler; and after such an exception the consumer has stopped, the
\* message is not acknowledged and is back at the head of the queue.
C39_StartConsumerNeverRaises ==
    /\ [][(pc \notin {"main", "health", "exited"} /\ pc' = "exited")
              => exitCode' \in {"0", "killed"}]_vars
    /\ []((dHandler \in {"raised", "dropped"} /\ exitCode # "killed") =>
              /\ pc = "exited"
              /\ exitCode = "0"
              /\ ~dAcked
              /\ inflight = NoBody
              /\ queue # <<>>
              /\ Head(queue) = dBody)

\* An exception left the handler of a delivered message: the process ended
\* with status 0 and the message is at the head of the queue.
C39_Witness ==
    /\ dHandler = "raised"
    /\ pc = "exited"
    /\ exitCode = "0"
    /\ ~dAcked
    /\ queue # <<>>
    /\ Head(queue) = dBody

\* The delivered job has every required key and an empty question list, and
\* the process was not stopped from outside while it had the job.
EmptyJob ==
    /\ WellFormed(dBody)
    /\ dBody.job.interview = <<>>
    /\ dHandler # "none"
    /\ exitCode # "killed"

\* C38: a well-formed job whose question list is empty never yields a
\* reported result: no per-question call is made, no result is built, the
\* reporter is not called; when the aggregate engine call answers, the
\* aggregation fails on the division by the question count; the one event
\* logged is FAILED under the job's id, in Redis once the handler has
\* returned, and the message is then acknowledged.
C38_EmptyJobFailsOnDivision ==
    EmptyJob =>
        /\ dEngine = <<>>
        /\ dReports = <<>>
        /\ ~final_response.built
        /\ Len(dAgg) <= 1
        /\ Len(dLogged) <= 1
        /\ HandlingOver =>
              /\ Len(dAgg) = 1
              /\ Len(dLogged) = 1
              /\ dLogged[1].event.status = "FAILED"
              /\ dLogged[1].event.cid = "j1"
              /\ dAgg[1] => dLogged[1].event.error_description = "ZeroDivisionError"
              /\ dHandler = "returned" =>
                    /\ dLogged[1].hmset
                    /\ store[StatusKey("j1")]["status"] = "FAILED"
                    /\ MovedOn => dAcked

\* The empty job was handled: the aggregate call answered, the division
\* failed, FAILED is in Redis and the message was acknowledged.
C38_Witness ==
    /\ EmptyJob
    /\ dAgg = <<TRUE>>
    /\ dHandler = "returned"
    /\ dAcked
    /\ store[StatusKey("j1")]["error_description"] = "ZeroDivisionError"
    /\ dReports = <<>>

\* C35: generate_cache_key yields a unique key per argument tuple: two calls
\* of generate_interview_questions whose arguments differ never have the
\* same cache key, and a call answered from the cache gets a result that was
\* generated for its own arguments.
C35_CacheKeyUniquePerArguments ==
    /\ \A i, j \in 1..Len(asked) :
           asked[i].args # asked[j].args => asked[i].cache_key # asked[j].cache_key
    /\ \A i \in 1..Len(asked) :
           asked[i].hit => asked[i].result.generated_for = asked[i].args

\* The messages the broker got, in the order of the produce_message calls,
\* and those among them after the first a up to the b-th.
Delivered == SelectSeq(produced, LAMBDA p : p.delivered)
DeliveredRun(a, b) == [i \in 1..(b - a) |-> Delivered[a + i].message]

\* What every call of consume_messages does: the list holds the delivered
\* messages from the consumer's first position to its present one, in
\* production order; an exception ends the polling; and the call returns
\* that list with the consumer closed.
CollectedInOrder ==
    /\ consumer.messages = DeliveredRun(consumer.start, consumer.position)
    /\ consumer.error = "KafkaException" => consumer.state \in {"closing", "closed"}
    /\ consumer.state = "closed" => consumer.returned = consumer.messages

====
